---- MODULE Spec2Model ----
(***************************************************************************)
(* Model of the MP4 muxing engine of Steam-Video-Downloader                *)
(* (src/content.js).  Buffers are sequences of bytes (0..255); an          *)
(* ArrayBuffer offset o of the source is position o+1 of the sequence.     *)
(* All integer fields stay below 2^31 within the bounds used here, so the  *)
(* 32-bit big-endian reads and writes are exact.                           *)
(***************************************************************************)
EXTENDS Integers, Sequences, FiniteSets, TLC

(***************************************************************************)
(* Bounds of the model (not program constants).                            *)
(***************************************************************************)
MaxFrag == 2
PadLen == 4
MaxSamples == 2

(***************************************************************************)
(* Byte-level primitives of DataView / Uint8Array.                         *)
(***************************************************************************)
\* new Uint8Array(n): n zero bytes.
Zeros(n) == [i \in 1..n |-> 0]

\* DataView.getUint32(off): big-endian, off is the 0-based byte offset.
getUint32(b, off) ==
    b[off + 1] * 16777216 + b[off + 2] * 65536 + b[off + 3] * 256 + b[off + 4]

\* The four bytes DataView.setUint32 stores for v.
U32Bytes(v) ==
    << (v \div 16777216) % 256, (v \div 65536) % 256, (v \div 256) % 256, v % 256 >>

\* DataView.setUint32(off, v) on a buffer that holds off+4 bytes.
setUint32(b, off, v) ==
    [i \in 1..Len(b) |->
        IF i > off /\ i <= off + 4 THEN U32Bytes(v)[i - off] ELSE b[i]]

\* setUint32 raises a RangeError when the four bytes do not fit.
setUint32Fits(b, off) == off >= 0 /\ off + 4 <= Len(b)

\* TypedArray/ArrayBuffer slice(start, end): both ends are clamped.
Min(a, b) == IF a < b THEN a ELSE b
Max(a, b) == IF a > b THEN a ELSE b
slice(b, start, end) ==
    SubSeq(b, Min(start, Len(b)) + 1, Min(end, Len(b)))

\* String.fromCharCode of the four type bytes at off+4..off+7.
typeAt(b, off) == SubSeq(b, off + 5, off + 8)

\* Number(getBigUint64(off)): the bounds keep the high word zero; a size
\* with a non-zero high word exceeds every buffer of the model.
HugeSize == 2^30
getBigUint64(b, off) ==
    IF getUint32(b, off) = 0 THEN getUint32(b, off + 4) ELSE HugeSize

(***************************************************************************)
(* Four-character box types.                                               *)
(***************************************************************************)
T_ftyp == <<102, 116, 121, 112>>
T_moov == <<109, 111, 111, 118>>
T_mvhd == <<109, 118, 104, 100>>
T_trak == <<116, 114, 97, 107>>
T_tkhd == <<116, 107, 104, 100>>
T_mdia == <<109, 100, 105, 97>>
T_mvex == <<109, 118, 101, 120>>
T_trex == <<116, 114, 101, 120>>
T_udta == <<117, 100, 116, 97>>
T_styp == <<115, 116, 121, 112>>
T_sidx == <<115, 105, 100, 120>>
T_moof == <<109, 111, 111, 102>>
T_mfhd == <<109, 102, 104, 100>>
T_traf == <<116, 114, 97, 102>>
T_tfhd == <<116, 102, 104, 100>>
T_mdat == <<109, 100, 97, 116>>
T_free == <<102, 114, 101, 101>>
T_minf == <<109, 105, 110, 102>>
T_stbl == <<115, 116, 98, 108>>
T_stsd == <<115, 116, 115, 100>>
T_trun == <<116, 114, 117, 110>>
T_mdhd == <<109, 100, 104, 100>>
T_hdlr == <<104, 100, 108, 114>>
T_vmhd == <<118, 109, 104, 100>>
T_smhd == <<115, 109, 104, 100>>
T_dinf == <<100, 105, 110, 102>>
T_dref == <<100, 114, 101, 102>>
T_url == <<117, 114, 108, 32>>
T_stts == <<115, 116, 116, 115>>
T_stsc == <<115, 116, 115, 99>>
T_stsz == <<115, 116, 115, 122>>
T_stco == <<115, 116, 99, 111>>
T_stss == <<115, 116, 115, 115>>
T_ctts == <<99, 116, 116, 115>>

(***************************************************************************)
(* Box Reader (binaryMuxFragmentedMP4's local helpers).                    *)
(***************************************************************************)
NullBox ==
    [isNull |-> TRUE, threw |-> FALSE, size |-> 0, type |-> <<>>,
     headerSize |-> 0, offset |-> 0]

\* readBoxHeader(view, offset): null when fewer than 8 bytes remain; a size
\* field of 1 reads the 64-bit size that follows (getBigUint64 raises a
\* RangeError when those 8 bytes are not there), a size field of 0 extends
\* the box to the end of the buffer.
readBoxHeader(view, offset) ==
    IF offset + 8 > Len(view) THEN NullBox
    ELSE LET size32 == getUint32(view, offset)
             type == typeAt(view, offset)
         IN  IF size32 = 1
             THEN IF offset + 16 > Len(view)
                  THEN [NullBox EXCEPT !.isNull = FALSE, !.threw = TRUE]
                  ELSE [isNull |-> FALSE, threw |-> FALSE,
                        size |-> getBigUint64(view, offset + 8), type |-> type,
                        headerSize |-> 16, offset |-> offset]
             ELSE IF size32 = 0
             THEN [isNull |-> FALSE, threw |-> FALSE,
                   size |-> Len(view) - offset, type |-> type,
                   headerSize |-> 8, offset |-> offset]
             ELSE [isNull |-> FALSE, threw |-> FALSE, size |-> size32,
                   type |-> type, headerSize |-> 8, offset |-> offset]

\* The while loop of parseBoxes from a given offset with the boxes so far.
RECURSIVE parseBoxesFrom(_, _, _)
parseBoxesFrom(view, offset, boxes) ==
    IF ~(offset < Len(view)) THEN [threw |-> FALSE, boxes |-> boxes]
    ELSE LET box == readBoxHeader(view, offset)
         IN  IF box.threw THEN [threw |-> TRUE, boxes |-> boxes]
             ELSE IF box.isNull \/ box.size < 8
             THEN [threw |-> FALSE, boxes |-> boxes]
             ELSE parseBoxesFrom(view, offset + box.size, Append(boxes, box))

\* parseBoxes(view): the top-level boxes, or the RangeError of readBoxHeader.
parseBoxes(view) == parseBoxesFrom(view, 0, <<>>)

\* Array.prototype.find(b => b.type === type): index of the first, 0 if none.
findBox(boxes, type) ==
    IF \E i \in 1..Len(boxes) : boxes[i].type = type
    THEN CHOOSE i \in 1..Len(boxes) :
            /\ boxes[i].type = type
            /\ \A j \in 1..(i - 1) : boxes[j].type # type
    ELSE 0

\* new Uint8Array(buffer, byteOffset, length) raises a RangeError unless the
\* region lies inside the buffer.
viewFits(buffer, box) == box.offset + box.size <= Len(buffer)
viewOf(buffer, box) == SubSeq(buffer, box.offset + 1, box.offset + box.size)

(***************************************************************************)
(* findSubBox / findSubBoxWithOffset: first immediate child of a type.     *)
(***************************************************************************)
NotFound == [found |-> FALSE, offset |-> 0, size |-> 0, data |-> <<>>]

RECURSIVE findSubBoxWithOffsetFrom(_, _, _)
findSubBoxWithOffsetFrom(data, targetType, offset) ==
    IF ~(offset < Len(data) - 8) THEN NotFound
    ELSE LET size == getUint32(data, offset)
             type == typeAt(data, offset)
         IN  IF size < 8 \/ offset + size > Len(data) THEN NotFound
             ELSE IF type = targetType
             THEN [found |-> TRUE, offset |-> offset, size |-> size,
                   data |-> slice(data, offset, offset + size)]
             ELSE findSubBoxWithOffsetFrom(data, targetType, offset + size)

findSubBoxWithOffset(data, targetType) ==
    findSubBoxWithOffsetFrom(data, targetType, 8)

RECURSIVE findSubBoxFrom(_, _, _)
findSubBoxFrom(data, targetType, offset) ==
    IF ~(offset < Len(data) - 8) THEN NotFound
    ELSE LET size == getUint32(data, offset)
             type == typeAt(data, offset)
         IN  IF size < 8 \/ offset + size > Len(data) THEN NotFound
             ELSE IF type = targetType
             THEN [found |-> TRUE, offset |-> offset, size |-> size,
                   data |-> slice(data, offset, offset + size)]
             ELSE findSubBoxFrom(data, targetType, offset + size)

\* findSubBox(data, targetType): the child's bytes (a copy) or null.
findSubBox(data, targetType) == findSubBoxFrom(data, targetType, 8)

(***************************************************************************)
(* Field Patcher.  A patcher of the source writes into the array it is     *)
(* given; here it returns the bytes of that array after the call, and      *)
(* threw = TRUE when setUint32 raised a RangeError.                        *)
(***************************************************************************)
\* updateTrackIdInSidx(sidxData, newTrackId)
updateTrackIdInSidx(sidxData, newTrackId) ==
    IF Len(sidxData) < 16 THEN sidxData
    ELSE setUint32(sidxData, 12, newTrackId)

\* A trex patcher that adds the new ID to the field instead of storing it.
updateTrackIdInTrexAdd(trexData, newTrackId) ==
    IF Len(trexData) < 16 THEN trexData
    ELSE setUint32(trexData, 12, getUint32(trexData, 12) + newTrackId)

\* updateTrackIdInTrex(trexData, newTrackId)
updateTrackIdInTrex(trexData, newTrackId) ==
    IF Len(trexData) < 16 THEN trexData
    ELSE setUint32(trexData, 12, newTrackId)

RECURSIVE updateTrackIdInTrakFrom(_, _, _)
updateTrackIdInTrakFrom(trakData, newTrackId, offset) ==
    IF ~(offset < Len(trakData) - 8) THEN [threw |-> FALSE, data |-> trakData]
    ELSE LET size == getUint32(trakData, offset)
             type == typeAt(trakData, offset)
         IN  IF size < 8 \/ offset + size > Len(trakData)
             THEN [threw |-> FALSE, data |-> trakData]
             ELSE IF type = T_tkhd
             THEN LET version == trakData[offset + 8 + 1]
                      trackIdOffset == offset + (IF version = 0 THEN 20 ELSE 28)
                  IN  IF setUint32Fits(trakData, trackIdOffset)
                      THEN [threw |-> FALSE,
                            data |-> setUint32(trakData, trackIdOffset, newTrackId)]
                      ELSE [threw |-> TRUE, data |-> trakData]
             ELSE updateTrackIdInTrakFrom(trakData, newTrackId, offset + size)

\* updateTrackIdInTrak(trakData, newTrackId)
updateTrackIdInTrak(trakData, newTrackId) ==
    updateTrackIdInTrakFrom(trakData, newTrackId, 8)

\* The inner loop of updateTrackIdInMoof over the children of one traf that
\* ends at trafEnd; found = TRUE when a tfhd was reached (the function
\* returns there).
RECURSIVE updateTfhdInTraf(_, _, _, _)
updateTfhdInTraf(moofData, newTrackId, trafOffset, trafEnd) ==
    IF ~(trafOffset < trafEnd - 8)
    THEN [found |-> FALSE, threw |-> FALSE, data |-> moofData]
    ELSE LET subSize == getUint32(moofData, trafOffset)
             subType == typeAt(moofData, trafOffset)
         IN  IF subSize < 8
             THEN [found |-> FALSE, threw |-> FALSE, data |-> moofData]
             ELSE IF subType = T_tfhd
             THEN IF setUint32Fits(moofData, trafOffset + 12)
                  THEN [found |-> TRUE, threw |-> FALSE,
                        data |-> setUint32(moofData, trafOffset + 12, newTrackId)]
                  ELSE [found |-> TRUE, threw |-> TRUE, data |-> moofData]
             ELSE updateTfhdInTraf(moofData, newTrackId, trafOffset + subSize, trafEnd)

RECURSIVE updateTrackIdInMoofFrom(_, _, _)
updateTrackIdInMoofFrom(moofData, newTrackId, offset) ==
    IF ~(offset < Len(moofData) - 8) THEN [threw |-> FALSE, data |-> moofData]
    ELSE LET size == getUint32(moofData, offset)
             type == typeAt(moofData, offset)
         IN  IF size < 8 \/ offset + size > Len(moofData)
             THEN [threw |-> FALSE, data |-> moofData]
             ELSE IF type = T_traf
             THEN LET r == updateTfhdInTraf(moofData, newTrackId, offset + 8,
                                            offset + size)
                  IN  IF r.found THEN [threw |-> r.threw, data |-> r.data]
                      ELSE updateTrackIdInMoofFrom(moofData, newTrackId, offset + size)
             ELSE updateTrackIdInMoofFrom(moofData, newTrackId, offset + size)

\* updateTrackIdInMoof(moofData, newTrackId)
updateTrackIdInMoof(moofData, newTrackId) ==
    updateTrackIdInMoofFrom(moofData, newTrackId, 8)

(***************************************************************************)
(* Moov Merger.                                                            *)
(***************************************************************************)
\* A merge that leaves the size field of the moov as it was in the mvex
\* branch.
createMergedMoovStaleSize(videoMoovData, audioTrakBox, audioTrexBox) ==
    LET patched == updateTrackIdInTrak(audioTrakBox, 2)
        audioTrakCopy == patched.data
        videoMvex == findSubBoxWithOffset(videoMoovData, T_mvex)
    IN  IF patched.threw THEN [threw |-> TRUE, data |-> <<>>]
        ELSE IF ~videoMvex.found \/ ~audioTrexBox.found
        THEN LET newSize == Len(videoMoovData) + Len(audioTrakCopy)
                 result == videoMoovData \o audioTrakCopy
             IN  [threw |-> FALSE, data |-> setUint32(result, 0, newSize)]
        ELSE LET audioTrexCopy == updateTrackIdInTrex(audioTrexBox.data, 2)
                 mvexOffset == videoMvex.offset
                 mvexSize == videoMvex.size
                 beforeMvex == slice(videoMoovData, 0, mvexOffset)
                 oldMvex == slice(videoMoovData, mvexOffset, mvexOffset + mvexSize)
                 newMvexSize == mvexSize + Len(audioTrexCopy)
                 newMvex == setUint32(oldMvex \o audioTrexCopy, 0, newMvexSize)
                 newMoovSize == Len(beforeMvex) + Len(audioTrakCopy) + Len(newMvex)
                 result == beforeMvex \o audioTrakCopy \o newMvex
             IN  [threw |-> FALSE, data |-> result]

\* createMergedMoov(videoMoovData, audioTrakBox, audioTrexBox); audioTrexBox
\* is the result of findSubBox (found = FALSE for null).  threw = TRUE when
\* updateTrackIdInTrak raised.
createMergedMoov(videoMoovData, audioTrakBox, audioTrexBox) ==
    LET patched == updateTrackIdInTrak(audioTrakBox, 2)
        audioTrakCopy == patched.data
        videoMvex == findSubBoxWithOffset(videoMoovData, T_mvex)
    IN  IF patched.threw THEN [threw |-> TRUE, data |-> <<>>]
        ELSE IF ~videoMvex.found \/ ~audioTrexBox.found
        THEN LET newSize == Len(videoMoovData) + Len(audioTrakCopy)
                 result == videoMoovData \o audioTrakCopy
             IN  [threw |-> FALSE, data |-> setUint32(result, 0, newSize)]
        ELSE LET audioTrexCopy == updateTrackIdInTrex(audioTrexBox.data, 2)
                 mvexOffset == videoMvex.offset
                 mvexSize == videoMvex.size
                 beforeMvex == slice(videoMoovData, 0, mvexOffset)
                 oldMvex == slice(videoMoovData, mvexOffset, mvexOffset + mvexSize)
                 newMvexSize == mvexSize + Len(audioTrexCopy)
                 newMvex == setUint32(oldMvex \o audioTrexCopy, 0, newMvexSize)
                 newMoovSize == Len(beforeMvex) + Len(audioTrakCopy) + Len(newMvex)
                 result == beforeMvex \o audioTrakCopy \o newMvex
             IN  [threw |-> FALSE, data |-> setUint32(result, 0, newMoovSize)]

(***************************************************************************)
(* Fragment Assembler.                                                     *)
(***************************************************************************)
\* A fragment test that forgets the styp boxes.
isFragmentTypeNoStyp(type) == type \in {T_sidx, T_moof, T_mdat}

\* ['styp', 'sidx', 'moof', 'mdat'].includes(box.type)
isFragmentType(type) == type \in {T_styp, T_sidx, T_moof, T_mdat}

\* The loop that collects videoFragments: views into videoData.
RECURSIVE collectVideoFragments(_, _, _, _)
collectVideoFragments(videoData, videoBoxes, i, frags) ==
    IF i > Len(videoBoxes) THEN [threw |-> FALSE, frags |-> frags]
    ELSE LET box == videoBoxes[i]
         IN  IF isFragmentType(box.type)
             THEN IF viewFits(videoData, box)
                  THEN collectVideoFragments(videoData, videoBoxes, i + 1,
                          Append(frags, [type |-> box.type, isView |-> TRUE,
                                         offset |-> box.offset, size |-> box.size,
                                         data |-> <<>>]))
                  ELSE [threw |-> TRUE, frags |-> frags]
             ELSE collectVideoFragments(videoData, videoBoxes, i + 1, frags)

\* The loop that collects audioFragments: styp, sidx and mdat are views
\* into audioData, a moof is a copy (audioData.slice) patched to track 2.
RECURSIVE collectAudioFragments(_, _, _, _)
collectAudioFragments(audioData, audioBoxes, i, frags) ==
    IF i > Len(audioBoxes) THEN [threw |-> FALSE, frags |-> frags]
    ELSE LET box == audioBoxes[i]
         IN  IF box.type \in {T_styp, T_sidx, T_mdat}
             THEN IF viewFits(audioData, box)
                  THEN collectAudioFragments(audioData, audioBoxes, i + 1,
                          Append(frags, [type |-> box.type, isView |-> TRUE,
                                         offset |-> box.offset, size |-> box.size,
                                         data |-> <<>>]))
                  ELSE [threw |-> TRUE, frags |-> frags]
             ELSE IF box.type = T_moof
             THEN LET moof == updateTrackIdInMoof(
                                 slice(audioData, box.offset, box.offset + box.size), 2)
                  IN  IF moof.threw THEN [threw |-> TRUE, frags |-> frags]
                      ELSE collectAudioFragments(audioData, audioBoxes, i + 1,
                              Append(frags, [type |-> T_moof, isView |-> FALSE,
                                             offset |-> box.offset,
                                             size |-> Len(moof.data),
                                             data |-> moof.data]))
             ELSE collectAudioFragments(audioData, audioBoxes, i + 1, frags)

\* A write through a typed-array view at byteOffset of its buffer.
writeThrough(buffer, offset, bytes) ==
    [i \in 1..Len(buffer) |->
        IF i > offset /\ i <= offset + Len(bytes) THEN bytes[i - offset]
        ELSE buffer[i]]

\* The loop over audioFragments that calls updateTrackIdInSidx(frag.data, 2):
\* frag.data of a sidx is a view, so the write lands in audioData.
RECURSIVE patchAudioSidx(_, _, _)
patchAudioSidx(audioData, frags, i) ==
    IF i > Len(frags) THEN audioData
    ELSE IF frags[i].type = T_sidx
    THEN patchAudioSidx(
            writeThrough(audioData, frags[i].offset,
                updateTrackIdInSidx(
                    SubSeq(audioData, frags[i].offset + 1,
                           frags[i].offset + frags[i].size), 2)),
            frags, i + 1)
    ELSE patchAudioSidx(audioData, frags, i + 1)

\* frag.data as read when the output is written.
fragData(buffer, frag) ==
    IF frag.isView
    THEN SubSeq(buffer, frag.offset + 1, frag.offset + frag.size)
    ELSE frag.data

RECURSIVE concatFrags(_, _, _)
concatFrags(buffer, frags, i) ==
    IF i > Len(frags) THEN <<>>
    ELSE fragData(buffer, frags[i]) \o concatFrags(buffer, frags, i + 1)

MuxThrew(error, videoData, audioData) ==
    [error |-> error, output |-> <<>>, videoData |-> videoData,
     audioData |-> audioData]

\* binaryMuxFragmentedMP4(videoData, audioData): error = "" and the output,
\* or the error thrown; videoData and audioData are the caller's buffers
\* after the call.
binaryMuxFragmentedMP4(videoData, audioData) ==
    LET vParse == parseBoxes(videoData)
        aParse == parseBoxes(audioData)
        videoBoxes == vParse.boxes
        audioBoxes == aParse.boxes
        videoFtyp == findBox(videoBoxes, T_ftyp)
        videoMoov == findBox(videoBoxes, T_moov)
        audioMoov == findBox(audioBoxes, T_moov)
        videoMoovData == viewOf(videoData, videoBoxes[videoMoov])
        audioMoovData == viewOf(audioData, audioBoxes[audioMoov])
        audioTrakBox == findSubBox(audioMoovData, T_trak)
        audioMvexBox == findSubBox(audioMoovData, T_mvex)
        audioTrexBox == IF audioMvexBox.found
                        THEN findSubBox(audioMvexBox.data, T_trex)
                        ELSE NotFound
        mergedMoov == createMergedMoov(videoMoovData, audioTrakBox.data, audioTrexBox)
        videoFragments == collectVideoFragments(videoData, videoBoxes, 1, <<>>)
        audioFragments == collectAudioFragments(audioData, audioBoxes, 1, <<>>)
        audioPatched == patchAudioSidx(audioData, audioFragments.frags, 1)
    IN  IF vParse.threw \/ aParse.threw
        THEN MuxThrew("RangeError", videoData, audioData)
        ELSE IF videoFtyp = 0 \/ videoMoov = 0 \/ audioMoov = 0
        THEN MuxThrew("Missing required boxes", videoData, audioData)
        ELSE IF ~viewFits(videoData, videoBoxes[videoMoov])
                \/ ~viewFits(audioData, audioBoxes[audioMoov])
        THEN MuxThrew("RangeError", videoData, audioData)
        ELSE IF ~audioTrakBox.found
        THEN MuxThrew("No audio track found", videoData, audioData)
        ELSE IF mergedMoov.threw \/ videoFragments.threw \/ audioFragments.threw
        THEN MuxThrew("RangeError", videoData, audioData)
        ELSE IF ~viewFits(videoData, videoBoxes[videoFtyp])
        THEN MuxThrew("RangeError", videoData, audioPatched)
        ELSE [error |-> "",
              output |-> viewOf(videoData, videoBoxes[videoFtyp])
                         \o mergedMoov.data
                         \o concatFrags(videoData, videoFragments.frags, 1)
                         \o concatFrags(audioPatched, audioFragments.frags, 1),
              videoData |-> videoData,
              audioData |-> audioPatched]

(***************************************************************************)
(* extractStsdFromMoov / findStsdInBox: the raw stsd box of a stream.      *)
(***************************************************************************)
RECURSIVE findStsdInBox(_, _)
findStsdInBox(data, offset) ==
    IF ~(offset < Len(data) - 8) THEN NotFound
    ELSE LET size == getUint32(data, offset)
             type == typeAt(data, offset)
         IN  IF size < 8 \/ offset + size > Len(data) THEN NotFound
             ELSE IF type = T_stsd
             THEN [found |-> TRUE, offset |-> offset, size |-> size,
                   data |-> slice(data, offset, offset + size)]
             ELSE IF type \in {T_trak, T_mdia, T_minf, T_stbl}
             THEN LET result == findStsdInBox(slice(data, offset, offset + size), 8)
                  IN  IF result.found THEN result
                      ELSE findStsdInBox(data, offset + size)
             ELSE findStsdInBox(data, offset + size)

RECURSIVE extractStsdFromMoovFrom(_, _)
extractStsdFromMoovFrom(data, offset) ==
    IF ~(offset < Len(data) - 8) THEN NotFound
    ELSE LET size == getUint32(data, offset)
             type == typeAt(data, offset)
         IN  IF size < 8 \/ offset + size > Len(data) THEN NotFound
             ELSE IF type = T_moov
             THEN findStsdInBox(SubSeq(data, offset + 1, offset + size), 8)
             ELSE extractStsdFromMoovFrom(data, offset + size)

\* extractStsdFromMoov(data): found = FALSE for null.
extractStsdFromMoov(data) == extractStsdFromMoovFrom(data, 0)

(***************************************************************************)
(* Progressive Builder: buildMP4WithRawStsd.                               *)
(***************************************************************************)
\* makeBox(type, content) of buildMP4WithRawStsd
\* A box whose size field counts the content alone.
makeBoxContentSize(type, content) == U32Bytes(Len(content)) \o type \o content

makeBox(type, content) == U32Bytes(8 + Len(content)) \o type \o content

\* DataView.setUint16(off, v)
setUint16(b, off, v) ==
    [i \in 1..Len(b) |->
        IF i = off + 1 THEN (v \div 256) % 256
        ELSE IF i = off + 2 THEN v % 256
        ELSE b[i]]

\* The four bytes DataView.setInt32 stores for v (two's complement).
Int32Bytes(v) ==
    IF v >= 0 THEN U32Bytes(v)
    ELSE LET u == (v + 2147483647) + 1
         IN  << 128 + ((u \div 16777216) % 128), (u \div 65536) % 256,
                (u \div 256) % 256, u % 256 >>

\* Math.round(a / b) for a >= 0, b > 0.
\* A division that drops the fraction instead of rounding.
FloorDiv(a, b) == a \div b

RoundDiv(a, b) == (2 * a + b) \div (2 * b)

movieTimescale == 1000

\* The ftyp box: isom, minor version 0x200, brands isom iso2 avc1.
buildFtypBox ==
    makeBox(T_ftyp, <<105, 115, 111, 109, 0, 0, 2, 0, 105, 115, 111, 109,
                      105, 115, 111, 50, 97, 118, 99, 49>>)

\* maxDuration of the tracks in movie timescale, rounded as it is written.
RECURSIVE maxDurationOf(_, _, _)
maxDurationOf(tracks, i, best) ==
    IF i > Len(tracks) THEN best
    ELSE maxDurationOf(tracks, i + 1,
            Max(best, RoundDiv(tracks[i].duration * movieTimescale,
                               tracks[i].timescale)))

buildMvhdBox(tracks) ==
    LET c0 == Zeros(100)
        c1 == setUint32(c0, 12, movieTimescale)
        c2 == setUint32(c1, 16, maxDurationOf(tracks, 1, 0))
        c3 == setUint32(c2, 20, 65536)
        c4 == setUint16(c3, 24, 256)
        c5 == setUint32(c4, 36, 65536)
        c6 == setUint32(c5, 52, 65536)
        c7 == setUint32(c6, 68, 1073741824)
        c8 == setUint32(c7, 96, Len(tracks) + 1)
    IN  makeBox(T_mvhd, c8)

\* sample.data of every sample of every track, in track order (mdatContent).
RECURSIVE samplesData(_, _)
samplesData(samples, i) ==
    IF i > Len(samples) THEN <<>>
    ELSE samples[i].data \o samplesData(samples, i + 1)

RECURSIVE allSampleData(_, _)
allSampleData(tracks, i) ==
    IF i > Len(tracks) THEN <<>>
    ELSE samplesData(tracks[i].samples, 1) \o allSampleData(tracks, i + 1)

\* The run-length loop of the stts table: entries so far, the current
\* duration and its count.
\* A run-length loop that forgets to push the run that is open at the end.
RECURSIVE sttsLoopNoFlush(_, _, _, _, _)
sttsLoopNoFlush(samples, i, entries, currDur, count) ==
    IF i > Len(samples) THEN entries
    ELSE IF samples[i].duration = currDur
    THEN sttsLoopNoFlush(samples, i + 1, entries, currDur, count + 1)
    ELSE sttsLoopNoFlush(samples, i + 1,
                         Append(entries, [count |-> count, dur |-> currDur]),
                         samples[i].duration, 1)

RECURSIVE sttsLoop(_, _, _, _, _)
sttsLoop(samples, i, entries, currDur, count) ==
    IF i > Len(samples)
    THEN IF count > 0 THEN Append(entries, [count |-> count, dur |-> currDur])
         ELSE entries
    ELSE IF samples[i].duration = currDur
    THEN sttsLoop(samples, i + 1, entries, currDur, count + 1)
    ELSE sttsLoop(samples, i + 1,
                  Append(entries, [count |-> count, dur |-> currDur]),
                  samples[i].duration, 1)

\* sttsEntries of buildTrak; currDur starts at samples[0]?.duration || 1.
sttsEntries(samples) ==
    sttsLoop(samples, 1, <<>>,
             IF Len(samples) > 0 /\ samples[1].duration # 0
             THEN samples[1].duration ELSE 1,
             0)

RECURSIVE sttsBytes(_, _)
sttsBytes(entries, i) ==
    IF i > Len(entries) THEN <<>>
    ELSE U32Bytes(entries[i].count) \o U32Bytes(entries[i].dur)
         \o sttsBytes(entries, i + 1)

buildSttsBox(samples) ==
    LET entries == sttsEntries(samples)
    IN  makeBox(T_stts, Zeros(4) \o U32Bytes(Len(entries)) \o sttsBytes(entries, 1))

buildStscBox(samples) ==
    makeBox(T_stsc, Zeros(4) \o U32Bytes(1) \o U32Bytes(1)
                    \o U32Bytes(Len(samples)) \o U32Bytes(1))

RECURSIVE stszBytes(_, _)
stszBytes(samples, i) ==
    IF i > Len(samples) THEN <<>>
    ELSE U32Bytes(Len(samples[i].data)) \o stszBytes(samples, i + 1)

buildStszBox(samples) ==
    makeBox(T_stsz, Zeros(8) \o U32Bytes(Len(samples)) \o stszBytes(samples, 1))

buildStcoBox(dataOffset) ==
    makeBox(T_stco, Zeros(4) \o U32Bytes(1) \o U32Bytes(dataOffset))

\* syncSamples of buildTrak: the 1-based positions flagged is_sync.
\* Sync positions counted from 0 instead of 1.
RECURSIVE syncSamplesZeroBased(_, _)
syncSamplesZeroBased(samples, i) ==
    IF i > Len(samples) THEN <<>>
    ELSE (IF samples[i].is_sync THEN <<i - 1>> ELSE <<>>)
         \o syncSamplesZeroBased(samples, i + 1)

RECURSIVE syncSamplesOf(_, _)
syncSamplesOf(samples, i) ==
    IF i > Len(samples) THEN <<>>
    ELSE (IF samples[i].is_sync THEN <<i>> ELSE <<>>)
         \o syncSamplesOf(samples, i + 1)

RECURSIVE u32List(_, _)
u32List(values, i) ==
    IF i > Len(values) THEN <<>>
    ELSE U32Bytes(values[i]) \o u32List(values, i + 1)

\* The stss box of a track, <<>> for null: video tracks only, and only when
\* some but not all samples are sync samples.
buildStssBox(track) ==
    LET syncSamples == syncSamplesOf(track.samples, 1)
    IN  IF track.type = "video" /\ Len(syncSamples) > 0
           /\ Len(syncSamples) < Len(track.samples)
        THEN makeBox(T_stss, Zeros(4) \o U32Bytes(Len(syncSamples))
                             \o u32List(syncSamples, 1))
        ELSE <<>>

\* The run-length loop of the ctts table.
RECURSIVE cttsLoop(_, _, _, _, _)
cttsLoop(samples, i, entries, currOff, cnt) ==
    IF i > Len(samples)
    THEN IF cnt > 0 THEN Append(entries, [count |-> cnt, offset |-> currOff])
         ELSE entries
    ELSE LET off == samples[i].cts - samples[i].dts
         IN  IF off = currOff
             THEN cttsLoop(samples, i + 1, entries, currOff, cnt + 1)
             ELSE cttsLoop(samples, i + 1,
                           Append(entries, [count |-> cnt, offset |-> currOff]),
                           off, 1)

cttsEntries(samples) ==
    cttsLoop(samples, 1, <<>>,
             IF Len(samples) > 0 THEN samples[1].cts - samples[1].dts ELSE 0, 0)

RECURSIVE cttsBytes(_, _)
cttsBytes(entries, i) ==
    IF i > Len(entries) THEN <<>>
    ELSE U32Bytes(entries[i].count) \o Int32Bytes(entries[i].offset)
         \o cttsBytes(entries, i + 1)

\* A ctts box written for every track, needed or not.
buildCttsBoxAlways(track) ==
    LET entries == cttsEntries(track.samples)
    IN  makeBox(T_ctts, Zeros(4) \o U32Bytes(Len(entries))
                        \o cttsBytes(entries, 1))

\* The ctts box of a track, <<>> for null.
buildCttsBox(track) ==
    LET needsCtts == \E i \in 1..Len(track.samples) :
                        track.samples[i].cts # track.samples[i].dts
        entries == cttsEntries(track.samples)
    IN  IF needsCtts
        THEN makeBox(T_ctts, Zeros(4) \o U32Bytes(Len(entries))
                             \o cttsBytes(entries, 1))
        ELSE <<>>

buildTkhdBox(track) ==
    LET trackDuration == RoundDiv(track.duration * movieTimescale, track.timescale)
        c0 == Zeros(84)
        c1 == setUint32(c0, 0, 3)
        c2 == setUint32(c1, 12, track.id)
        c3 == setUint32(c2, 20, trackDuration)
        c4 == setUint16(c3, 36, IF track.type = "audio" THEN 256 ELSE 0)
        c5 == setUint32(c4, 40, 65536)
        c6 == setUint32(c5, 56, 65536)
        c7 == setUint32(c6, 72, 1073741824)
        c8 == setUint32(c7, 76, track.width * 65536)
        c9 == setUint32(c8, 80, track.height * 65536)
    IN  makeBox(T_tkhd, c9)

buildMdhdBox(track) ==
    LET c0 == Zeros(24)
        c1 == setUint32(c0, 12, track.timescale)
        c2 == setUint32(c1, 16, track.duration)
        c3 == setUint16(c2, 20, 21956)
    IN  makeBox(T_mdhd, c3)

\* 'VideoHandler' / 'SoundHandler'
handlerName(type) ==
    IF type = "video"
    THEN <<86, 105, 100, 101, 111, 72, 97, 110, 100, 108, 101, 114>>
    ELSE <<83, 111, 117, 110, 100, 72, 97, 110, 100, 108, 101, 114>>

buildHdlrBox(track) ==
    makeBox(T_hdlr, Zeros(8)
                    \o (IF track.type = "video" THEN <<118, 105, 100, 101>>
                        ELSE <<115, 111, 117, 110>>)
                    \o Zeros(12) \o handlerName(track.type) \o <<0>>)

buildMediaHeader(track) ==
    IF track.type = "video"
    THEN makeBox(T_vmhd, <<0, 0, 0, 1, 0, 0, 0, 0, 0, 0, 0, 0>>)
    ELSE makeBox(T_smhd, Zeros(8))

buildDinfBox ==
    makeBox(T_dinf,
        makeBox(T_dref, <<0, 0, 0, 0, 0, 0, 0, 1>> \o makeBox(T_url, <<0, 0, 0, 1>>)))

\* buildTrak(track, dataOffset) of buildMP4WithRawStsd
buildTrak(track, dataOffset) ==
    LET stsd == IF track.rawStsd.found THEN track.rawStsd.data
                ELSE makeBox(T_stsd, Zeros(8))
        stbl == makeBox(T_stbl,
                    stsd \o buildSttsBox(track.samples)
                    \o buildStscBox(track.samples)
                    \o buildStszBox(track.samples)
                    \o buildStcoBox(dataOffset)
                    \o buildStssBox(track) \o buildCttsBox(track))
        minf == makeBox(T_minf, buildMediaHeader(track) \o buildDinfBox \o stbl)
        mdia == makeBox(T_mdia, buildMdhdBox(track) \o buildHdlrBox(track) \o minf)
    IN  makeBox(T_trak, buildTkhdBox(track) \o mdia)

RECURSIVE trackDataSize(_, _)
trackDataSize(samples, i) ==
    IF i > Len(samples) THEN 0
    ELSE Len(samples[i].data) + trackDataSize(samples, i + 1)

\* First pass: every trak built with offset 0.
RECURSIVE tempTraks(_, _)
tempTraks(tracks, i) ==
    IF i > Len(tracks) THEN <<>>
    ELSE buildTrak(tracks[i], 0) \o tempTraks(tracks, i + 1)

\* A second pass that gives every trak the offset of the first.
RECURSIVE finalTraksSameOffset(_, _, _)
finalTraksSameOffset(tracks, i, offset) ==
    IF i > Len(tracks) THEN <<>>
    ELSE buildTrak(tracks[i], offset)
         \o finalTraksSameOffset(tracks, i + 1, offset)

\* Second pass: every trak built with its real offset, which then advances
\* by the byte length of the track's samples.
RECURSIVE finalTraks(_, _, _)
finalTraks(tracks, i, offset) ==
    IF i > Len(tracks) THEN <<>>
    ELSE buildTrak(tracks[i], offset)
         \o finalTraks(tracks, i + 1,
                       offset + trackDataSize(tracks[i].samples, 1))

\* buildMP4WithRawStsd(tracks): the bytes of the progressive file.
buildMP4WithRawStsd(tracks) ==
    LET ftyp == buildFtypBox
        mvhd == buildMvhdBox(tracks)
        mdatContent == allSampleData(tracks, 1)
        tempMoov == makeBox(T_moov, mvhd \o tempTraks(tracks, 1))
        mdatStart == Len(ftyp) + Len(tempMoov) + 8
        moov == makeBox(T_moov, mvhd \o finalTraks(tracks, 1, mdatStart))
        mdat == makeBox(T_mdat, mdatContent)
    IN  ftyp \o moov \o mdat

(***************************************************************************)
(* Input streams.  A stream is described by a record and serialised to     *)
(* bytes; the descriptions range over well-formed DASH streams and the     *)
(* malformed ones the engine has to survive.                               *)
(***************************************************************************)
Fill(n, v) == [i \in 1..n |-> v]
Box(type, content) == U32Bytes(8 + Len(content)) \o type \o content

\* tkhd: version/flags, creation and modification time (32 or 64 bit), track_ID.
Tkhd(ver, id) ==
    Box(T_tkhd, <<ver, 0, 0, 0>> \o Zeros(IF ver = 0 THEN 8 ELSE 16)
                \o U32Bytes(id) \o Zeros(4))
Stsd(tag) == Box(T_stsd, Zeros(4) \o <<0, 0, 0, 1>> \o Fill(PadLen, tag))
Mdia(hasStsd, tag) ==
    Box(T_mdia, IF hasStsd
                THEN Box(T_minf, Box(T_stbl, Stsd(tag)))
                ELSE Zeros(PadLen))
Trak(ver, id, hasStsd, tag) == Box(T_trak, Tkhd(ver, id) \o Mdia(hasStsd, tag))
Trex(id) == Box(T_trex, Zeros(4) \o U32Bytes(id) \o Zeros(4))
Sidx(ref) == Box(T_sidx, Zeros(4) \o U32Bytes(ref) \o Zeros(4))
Moof(id, seq) ==
    Box(T_moof, Box(T_mfhd, Zeros(4) \o U32Bytes(seq))
                \o Box(T_traf, Box(T_tfhd, Zeros(4) \o U32Bytes(id))
                               \o Box(T_trun, Zeros(4))))
Mdat(tag) == Box(T_mdat, Fill(PadLen, tag))

\* One media segment: optional styp, optional sidx, moof, mdat.
Fragment(d, k) ==
    (IF d.styp THEN Box(T_styp, Zeros(4)) ELSE <<>>)
    \o (IF d.sidx THEN Sidx(d.tid) ELSE <<>>)
    \o Moof(d.tid, k) \o Mdat(d.tag + k)

RECURSIVE Fragments(_, _)
Fragments(d, k) ==
    IF k > d.nfrag THEN <<>> ELSE Fragment(d, k) \o Fragments(d, k + 1)

\* How a stream ends: cleanly, or with a box cut short by the end of the
\* buffer, a box that extends to the end (size 0), a 64-bit size, stray
\* bytes, a header whose 64-bit size is missing, a box of another type, or
\* a large media-data box.
StreamTail(d) ==
    CASE d.tail = "none" -> <<>>
      [] d.tail = "truncMdat" ->
            U32Bytes(8 + 2 * PadLen + 4) \o T_mdat \o Fill(PadLen, d.tag + 9)
      [] d.tail = "truncMoof" ->
            SubSeq(Moof(d.tid, 9), 1, Len(Moof(d.tid, 9)) - 4)
      [] d.tail = "truncSidx" -> SubSeq(Sidx(d.tid), 1, 18)
      [] d.tail = "toEnd" -> U32Bytes(0) \o T_mdat \o Fill(PadLen, d.tag + 9)
      [] d.tail = "large64" ->
            U32Bytes(1) \o T_mdat \o U32Bytes(0) \o U32Bytes(16 + PadLen)
            \o Fill(PadLen, d.tag + 9)
      [] d.tail = "junk" -> <<7, 7, 7>>
      [] d.tail = "cut64" -> U32Bytes(1) \o T_mdat
      [] d.tail = "free" -> Box(T_free, Zeros(PadLen))
      [] d.tail = "bigFree" -> Box(T_free, Zeros(100 * PadLen))
      [] d.tail = "bigMdat" -> Box(T_mdat, Fill(100 * PadLen, d.tag + 9))

Moov(d) ==
    Box(T_moov, Box(T_mvhd, Zeros(4))
                \o (IF d.trak THEN Trak(d.ver, d.tid, d.stsd, d.tag) ELSE <<>>)
                \o (IF d.mvex THEN Box(T_mvex, Trex(d.tid)) ELSE <<>>)
                \o (IF d.udta THEN Box(T_udta, Zeros(PadLen)) ELSE <<>>))

Stream(d) ==
    (IF d.ftyp THEN Box(T_ftyp, Zeros(8)) ELSE <<>>)
    \o (IF d.moov THEN Moov(d) ELSE <<>>)
    \o Fragments(d, 1) \o StreamTail(d)

Nominal(tag) ==
    [ftyp |-> TRUE, moov |-> TRUE, trak |-> TRUE, mvex |-> TRUE,
     udta |-> FALSE, stsd |-> TRUE, styp |-> FALSE, sidx |-> TRUE,
     ver |-> 0, tid |-> 1, nfrag |-> MaxFrag, tail |-> "none", tag |-> tag]

\* The departures from the nominal stream, one field each.
Departures ==
    << [f |-> "ftyp", b |-> FALSE, n |-> 0, s |-> ""],
       [f |-> "moov", b |-> FALSE, n |-> 0, s |-> ""],
       [f |-> "trak", b |-> FALSE, n |-> 0, s |-> ""],
       [f |-> "mvex", b |-> FALSE, n |-> 0, s |-> ""],
       [f |-> "udta", b |-> TRUE, n |-> 0, s |-> ""],
       [f |-> "stsd", b |-> FALSE, n |-> 0, s |-> ""],
       [f |-> "styp", b |-> TRUE, n |-> 0, s |-> ""],
       [f |-> "sidx", b |-> FALSE, n |-> 0, s |-> ""],
       [f |-> "ver", b |-> FALSE, n |-> 1, s |-> ""],
       [f |-> "tid", b |-> FALSE, n |-> 2, s |-> ""],
       [f |-> "tid", b |-> FALSE, n |-> 3, s |-> ""],
       [f |-> "nfrag", b |-> FALSE, n |-> 0, s |-> ""],
       [f |-> "nfrag", b |-> FALSE, n |-> 1, s |-> ""],
       [f |-> "tail", b |-> FALSE, n |-> 0, s |-> "truncMdat"],
       [f |-> "tail", b |-> FALSE, n |-> 0, s |-> "truncMoof"],
       [f |-> "tail", b |-> FALSE, n |-> 0, s |-> "truncSidx"],
       [f |-> "tail", b |-> FALSE, n |-> 0, s |-> "toEnd"],
       [f |-> "tail", b |-> FALSE, n |-> 0, s |-> "large64"],
       [f |-> "tail", b |-> FALSE, n |-> 0, s |-> "junk"],
       [f |-> "tail", b |-> FALSE, n |-> 0, s |-> "cut64"],
       [f |-> "tail", b |-> FALSE, n |-> 0, s |-> "free"],
       [f |-> "tail", b |-> FALSE, n |-> 0, s |-> "bigFree"],
       [f |-> "tail", b |-> FALSE, n |-> 0, s |-> "bigMdat"] >>

\* Description d with departure number i applied (0: none).
Depart(d, i) ==
    IF i = 0 THEN d
    ELSE LET a == Departures[i]
         IN  IF a.f \in {"ver", "tid", "nfrag"} THEN [d EXCEPT ![a.f] = a.n]
             ELSE IF a.f = "tail" THEN [d EXCEPT !.tail = a.s]
             ELSE [d EXCEPT ![a.f] = a.b]

\* Pairs (video, audio) that together depart from the nominal pair in at
\* most two fields; payload bytes of the video stream start at 16, those
\* of the audio stream at 80.
InputPairs ==
    LET D == 0..Len(Departures)
    IN  {<<Depart(Depart(Nominal(16), i), j), Nominal(80)>> : i \in D, j \in D}
        \cup {<<Depart(Nominal(16), i), Depart(Nominal(80), j)>> : i \in D, j \in D}
        \cup {<<Nominal(16), Depart(Depart(Nominal(80), i), j)>> : i \in D, j \in D}

(***************************************************************************)
(* State.                                                                  *)
(***************************************************************************)
VARIABLES
    vDesc,        \* description of the video stream handed to the engine
    aDesc,        \* description of the audio stream handed to the engine
    videoData,    \* bytes of the caller's video ArrayBuffer
    audioData,    \* bytes of the caller's audio ArrayBuffer
    pc,           \* position of the running operation
    muxed,        \* what binaryMuxFragmentedMP4 returned or threw
    mp4boxLoaded, \* typeof MP4Box !== 'undefined'
    started,      \* the strategies muxVideoAudio has started, in order
    outcome,      \* how each started strategy ended
    ret,          \* what muxVideoAudio returned or threw
    stsd,         \* videoStsd / audioStsd of defragmentWithRawStsd
    resolved,     \* the resolved flag of defragmentWithRawStsd
    promise,      \* the promise defragmentWithRawStsd returned
    fileInfo,     \* fileInfo of defragmentWithRawStsd
    trackSamples, \* trackSamples of defragmentWithRawStsd
    timer,        \* the 20 s timer of defragmentWithRawStsd
    demux,        \* the demuxer fed by defragmentWithRawStsd
    builds,       \* number of buildOutput runs
    muxCalls,     \* number of binaryMuxFragmentedMP4 calls
    built,        \* the tracks buildOutput handed to the builder
    pf,           \* the parseFile call in progress on the raw path
    videoResult,  \* what parseFile resolved with for the video stream
    patch,        \* a track-ID patcher, the box it is given and what it did
    dl,           \* isDownloading, the progress popup and the downloads begun
    scan,         \* the while loop of parseBoxes over one buffer
    bg            \* the background worker: its flag, map, calls and messages

vars ==
    <<vDesc, aDesc, videoData, audioData, pc, muxed, mp4boxLoaded, started,
      outcome, ret, stsd, resolved, promise, fileInfo, trackSamples, timer,
      demux, builds, muxCalls, built, pf, videoResult, patch,
      dl, scan, bg>>

NoResult == [error |-> "", output |-> <<>>]

Strategies == {"progressive", "fragmented", "raw"}
NoScan == [view |-> <<>>, offset |-> 0, boxes |-> <<>>, state |-> "idle"]
NoWorker ==
    [offscreenDocumentCreated |-> FALSE, pendingRequests |-> {},
     document |-> FALSE, calls |-> <<>>, invocations |-> <<>>,
     jobs |-> <<>>, sent |-> {}]
\* The parts of the program that a specification leaves at rest.
Apart == scan = NoScan /\ bg = NoWorker
NoDownload ==
    [isDownloading |-> FALSE, popup |-> FALSE, runs |-> <<>>, delivered |-> <<>>]
NoPatch ==
    [fn |-> "", box |-> <<>>, data |-> <<>>, once |-> <<>>, calls |-> 0,
     threw |-> FALSE]
NoPromise == [state |-> "none", value |-> <<>>, reason |-> ""]
NoInfo == [ready |-> FALSE, tracks |-> <<>>]
NoParse ==
    [name |-> "", ready |-> FALSE, hasTracks |-> FALSE, totalSamples |-> 0,
     samples |-> 0, extractionDone |-> FALSE, state |-> "none",
     infoNull |-> TRUE, timer |-> "off"]

\* The value parseFile resolves with: { info, samples, file }.
NoValue == [infoNull |-> TRUE, hasTracks |-> FALSE, samples |-> 0]

\* The state of the orchestration before muxVideoAudio is called.
MuxIdle ==
    /\ started = <<>>
    /\ outcome = [s \in Strategies |-> "none"]
    /\ ret = [state |-> "pending", by |-> "", kind |-> "", data |-> <<>>,
              size |-> 0, error |-> ""]
    /\ stsd = [video |-> NotFound, audio |-> NotFound]
    /\ resolved = FALSE
    /\ promise = NoPromise
    /\ fileInfo = NoInfo
    /\ trackSamples = <<>>
    /\ timer = "off"
    /\ demux = [fed |-> FALSE, delivered |-> <<>>, errors |-> 0]
    /\ builds = 0
    /\ muxCalls = 0
    /\ pf = NoParse
    /\ videoResult = NoValue

(***************************************************************************)
(* SpecFrag: binaryMuxFragmentedMP4 applied to every pair of streams.      *)
(***************************************************************************)
InitFrag ==
    /\ \E p \in InputPairs : vDesc = p[1] /\ aDesc = p[2]
    /\ videoData = Stream(vDesc)
    /\ audioData = Stream(aDesc)
    /\ pc = "frag_call"
    /\ muxed = NoResult
    /\ mp4boxLoaded = TRUE
    /\ built = <<>>
    /\ patch = NoPatch
    /\ dl = NoDownload
    /\ Apart
    /\ MuxIdle

FragCall ==
    /\ pc = "frag_call"
    /\ \E r \in {binaryMuxFragmentedMP4(videoData, audioData)} :
           /\ muxed' = [error |-> r.error, output |-> r.output]
           /\ videoData' = r.videoData
           /\ audioData' = r.audioData
    /\ pc' = "frag_done"
    /\ muxCalls' = muxCalls + 1
    /\ UNCHANGED <<scan, bg, dl, patch, vDesc, aDesc>>
    /\ UNCHANGED <<mp4boxLoaded, started, outcome, ret, stsd, resolved, promise,
                   fileInfo, trackSamples, timer, demux, builds, built, pf,
                   videoResult>>

NextFrag == FragCall

SpecFrag == InitFrag /\ [][NextFrag]_vars
(***************************************************************************)
(* The demuxer (MP4Box) as the engine sees it: the track list it reports   *)
(* in onReady and the samples it delivers in onSamples.                    *)
(***************************************************************************)
InfoTrack(id, type, n, duration) ==
    [id |-> id, type |-> type, nb_samples |-> n,
     timescale |-> IF type = "video" THEN 1000 ELSE 600,
     duration |-> duration,
     width |-> IF type = "video" THEN 16 ELSE 0,
     height |-> IF type = "video" THEN 9 ELSE 0]

InfoChoices ==
    {<<>>}
    \cup {<<InfoTrack(1, "video", n, 40)>> : n \in 1..MaxSamples}
    \cup {<<InfoTrack(1, "video", n, 40), InfoTrack(2, "audio", m, 0)>> :
            n \in {1, MaxSamples}, m \in {1, MaxSamples}}
    \cup {<<InfoTrack(2, "audio", MaxSamples, 0), InfoTrack(1, "video", 1, 40)>>,
          <<InfoTrack(1, "video", 1, 40), InfoTrack(2, "audio", 0, 0)>>,
          <<InfoTrack(1, "video", 1, 40), InfoTrack(3, "video", 1, 0)>>}

\* The k-th sample the demuxer delivers for a track: the second video
\* sample is a non-sync frame shown before it is decoded late, the second
\* audio sample carries no data.
DemuxSample(type, k) ==
    [data |-> IF type = "audio" /\ k = 2 THEN <<>>
              ELSE IF type = "video" THEN <<200 + k, 200 + k, 200 + k>>
              ELSE <<100 + k, 100 + k>>,
     duration |-> 10 * k,
     dts |-> 10 * (k - 1),
     cts |-> IF type = "video" /\ k = 2 THEN 10 * k ELSE 10 * (k - 1),
     is_sync |-> (type = "audio" \/ k = 1)]

\* The sizes of the batches the demuxer hands to onSamples.
BatchSizes == {1, MaxSamples}

DemuxBatch(type, from, n) == [k \in 1..n |-> DemuxSample(type, from + k)]

(***************************************************************************)
(* defragmentWithRawStsd: buildOutput.                                     *)
(***************************************************************************)
\* samples.filter(s => s.data && s.data.byteLength > 0)
RECURSIVE filterSamples(_, _)
filterSamples(samples, i) ==
    IF i > Len(samples) THEN <<>>
    ELSE (IF Len(samples[i].data) > 0 THEN <<samples[i]>> ELSE <<>>)
         \o filterSamples(samples, i + 1)

RECURSIVE sumDurations(_, _)
sumDurations(samples, i) ==
    IF i > Len(samples) THEN 0
    ELSE samples[i].duration + sumDurations(samples, i + 1)

\* The loop of buildOutput over fileInfo.tracks: tracks without samples are
\* skipped, the others get the next free id, their duration (recomputed
\* from the samples when it is 0 or missing) and the raw stsd of their kind.
RECURSIVE collectTracks(_, _, _, _, _)
collectTracks(infoTracks, samplesOf, rawStsd, i, tracks) ==
    IF i > Len(infoTracks) THEN tracks
    ELSE LET track == infoTracks[i]
             samples == samplesOf[i]
             filteredSamples == filterSamples(samples, 1)
             calculatedDuration ==
                 IF track.duration = 0 THEN sumDurations(filteredSamples, 1)
                 ELSE track.duration
         IN  IF Len(samples) = 0
             THEN collectTracks(infoTracks, samplesOf, rawStsd, i + 1, tracks)
             ELSE collectTracks(infoTracks, samplesOf, rawStsd, i + 1,
                     Append(tracks,
                        [id |-> Len(tracks) + 1, type |-> track.type,
                         timescale |-> track.timescale,
                         duration |-> calculatedDuration,
                         width |-> track.width, height |-> track.height,
                         samples |-> filteredSamples,
                         rawStsd |-> IF track.type = "video" THEN rawStsd.video
                                     ELSE rawStsd.audio]))

Orderings(n) ==
    {p \in [1..n -> 1..n] : \A i, j \in 1..n : i # j => p[i] # p[j]}

\* tracks.sort((a, b) => (a.type === 'video' ? -1 : 1)): with one video
\* track and at most one other track the comparator is consistent and the
\* video track comes first; otherwise it is not, and the order that results
\* is implementation-defined.
sortTracks(tracks) ==
    LET n == Len(tracks)
        videos == {i \in 1..n : tracks[i].type = "video"}
    IN  IF n <= 1 THEN {tracks}
        ELSE IF n = 2 /\ Cardinality(videos) = 1
        THEN {IF tracks[1].type = "video" THEN tracks
              ELSE <<tracks[2], tracks[1]>>}
        ELSE {[i \in 1..n |-> tracks[p[i]]] : p \in Orderings(n)}

\* The outputs buildOutput can resolve the promise with.
buildOutput(infoTracks, samplesOf, rawStsd) ==
    {[tracks |-> t, output |-> buildMP4WithRawStsd(t)] :
        t \in sortTracks(collectTracks(infoTracks, samplesOf, rawStsd, 1, <<>>))}

(***************************************************************************)
(* Spec: muxVideoAudio with its three strategies.                          *)
(***************************************************************************)
\* The streams muxVideoAudio is run on.
MuxPairs ==
    {<<Nominal(16), Nominal(80)>>,
     <<[Nominal(16) EXCEPT !.tail = "bigFree", !.stsd = FALSE], Nominal(80)>>,
     <<[Nominal(16) EXCEPT !.tail = "bigMdat"], Nominal(80)>>,
     <<[Nominal(16) EXCEPT !.ftyp = FALSE], Nominal(80)>>,
     <<[Nominal(16) EXCEPT !.stsd = FALSE], Nominal(80)>>,
     <<Nominal(16), [Nominal(80) EXCEPT !.trak = FALSE]>>}

Init ==
    /\ \E p \in MuxPairs : vDesc = p[1] /\ aDesc = p[2]
    /\ videoData = Stream(vDesc)
    /\ audioData = Stream(aDesc)
    /\ pc = "start"
    /\ muxed = NoResult
    /\ mp4boxLoaded \in BOOLEAN
    /\ built = <<>>
    /\ patch = NoPatch
    /\ dl = NoDownload
    /\ Apart
    /\ MuxIdle

\* resolve / reject of a promise: only a pending promise changes.
\* A promise that every resolve or reject call settles anew.
settleAlways(p, state, value, reason) ==
    [state |-> state, value |-> value, reason |-> reason]

settle(p, state, value, reason) ==
    IF p.state = "pending"
    THEN [state |-> state, value |-> value, reason |-> reason]
    ELSE p

\* A size check that accepts every non-empty output.
sizeOkAny(len, videoLen) == len > 0

\* result.byteLength > videoData.byteLength * 0.9
sizeOk(len, videoLen) == 10 * len > 9 * videoLen

Returned(by, kind, data, size) ==
    [state |-> "returned", by |-> by, kind |-> kind, data |-> data,
     size |-> size, error |-> ""]

\* muxVideoAudio up to its first await: the MP4Box check, then the executor
\* of defragmentWithRawStsd (stsd extraction, the fragmented mux whose
\* output is fed to the demuxer, the 20 s timer).
MuxStart ==
    /\ pc = "start"
    /\ IF ~mp4boxLoaded
       THEN /\ ret' = [ret EXCEPT !.state = "threw",
                                  !.error = "MP4Box library not loaded"]
            /\ pc' = "done"
            /\ UNCHANGED <<started, stsd, promise, timer, demux, audioData,
                           videoData, muxCalls>>
       ELSE LET videoStsd == extractStsdFromMoov(videoData)
                audioStsd == extractStsdFromMoov(audioData)
                r == binaryMuxFragmentedMP4(videoData, audioData)
            IN  /\ started' = Append(started, "progressive")
                /\ stsd' = [video |-> videoStsd, audio |-> audioStsd]
                /\ pc' = "await_progressive"
                /\ ret' = ret
                /\ IF ~videoStsd.found
                   THEN /\ promise' = [state |-> "rejected", value |-> <<>>,
                                       reason |-> "Could not extract video stsd"]
                        /\ UNCHANGED <<timer, demux, audioData, videoData,
                                       muxCalls>>
                   ELSE /\ muxCalls' = muxCalls + 1
                        /\ videoData' = r.videoData
                        /\ audioData' = r.audioData
                        /\ timer' = "armed"
                        /\ IF r.error # ""
                           THEN /\ promise' = [state |-> "rejected",
                                               value |-> <<>>,
                                               reason |-> r.error]
                                /\ demux' = demux
                           ELSE /\ promise' = [state |-> "pending",
                                               value |-> <<>>, reason |-> ""]
                                /\ demux' = [demux EXCEPT !.fed = TRUE]
    /\ UNCHANGED <<scan, bg, dl, patch, vDesc, aDesc, muxed, mp4boxLoaded, outcome, resolved,
                   fileInfo, trackSamples, builds, built, pf, videoResult>>

\* file.onReady of defragmentWithRawStsd.
OnReady ==
    /\ demux.fed
    /\ ~fileInfo.ready
    /\ \E info \in InfoChoices :
        /\ fileInfo' = [ready |-> TRUE, tracks |-> info]
        /\ trackSamples' = [i \in 1..Len(info) |-> <<>>]
        /\ demux' = [demux EXCEPT !.delivered = [i \in 1..Len(info) |-> 0]]
    /\ UNCHANGED <<scan, bg, dl, patch, vDesc, aDesc, videoData, audioData, pc, muxed,
                   mp4boxLoaded, started, outcome, ret, stsd, resolved,
                   promise, timer, builds, muxCalls, built, pf, videoResult>>

\* A completion test that is content with one complete track.
allDoneAnyTrack(tracks, samples) ==
    \E t \in 1..Len(tracks) : Len(samples[t]) >= tracks[t].nb_samples

\* allDone of onSamples: every track has at least nb_samples samples.
allDone(tracks, samples) ==
    \A t \in 1..Len(tracks) : Len(samples[t]) >= tracks[t].nb_samples

\* file.onSamples of defragmentWithRawStsd for track number i and a batch
\* of n samples; buildOutput runs inside it when every track is complete.
OnSamples(i, n) ==
    /\ fileInfo.ready
    /\ i \in 1..Len(fileInfo.tracks)
    /\ demux.delivered[i] + n <= MaxSamples
    /\ demux' = [demux EXCEPT !.delivered[i] = @ + n]
    /\ IF resolved
       THEN UNCHANGED <<trackSamples, resolved, promise, builds, built>>
       ELSE LET pushed == [trackSamples EXCEPT
                              ![i] = @ \o DemuxBatch(fileInfo.tracks[i].type,
                                                     demux.delivered[i], n)]
            IN  /\ trackSamples' = pushed
                /\ IF allDone(fileInfo.tracks, pushed)
                   THEN /\ resolved' = TRUE
                        /\ builds' = builds + 1
                        /\ \E b \in buildOutput(fileInfo.tracks, pushed, stsd) :
                            /\ built' = b.tracks
                            /\ promise' = settle(promise, "fulfilled",
                                                 b.output, "")
                   ELSE UNCHANGED <<resolved, promise, builds, built>>
    /\ UNCHANGED <<scan, bg, dl, patch, vDesc, aDesc, videoData, audioData, pc, muxed,
                   mp4boxLoaded, started, outcome, ret, stsd, fileInfo, timer,
                   muxCalls, pf, videoResult>>

\* file.onError of defragmentWithRawStsd.
OnError ==
    /\ demux.fed
    /\ demux.errors = 0
    /\ demux' = [demux EXCEPT !.errors = 1]
    /\ IF resolved THEN UNCHANGED <<resolved, promise>>
       ELSE /\ resolved' = TRUE
            /\ promise' = settle(promise, "rejected", <<>>, "demuxer error")
    /\ UNCHANGED <<scan, bg, dl, patch, vDesc, aDesc, videoData, audioData, pc, muxed,
                   mp4boxLoaded, started, outcome, ret, stsd, fileInfo,
                   trackSamples, timer, builds, muxCalls, built, pf,
                   videoResult>>

\* The setTimeout callback of defragmentWithRawStsd (20000 ms).
OnTimeout ==
    /\ timer = "armed"
    /\ timer' = "fired"
    /\ IF resolved THEN UNCHANGED <<resolved, promise>>
       ELSE /\ resolved' = TRUE
            /\ promise' = settle(promise, "rejected", <<>>, "Timeout")
    /\ UNCHANGED <<scan, bg, dl, patch, vDesc, aDesc, videoData, audioData, pc, muxed,
                   mp4boxLoaded, started, outcome, ret, stsd, fileInfo,
                   trackSamples, demux, builds, muxCalls, built, pf,
                   videoResult>>

\* muxVideoAudio resumes after await defragmentWithRawStsd(...).
AfterProgressive ==
    /\ pc = "await_progressive"
    /\ promise.state \in {"fulfilled", "rejected"}
    /\ IF promise.state = "fulfilled"
          /\ sizeOk(Len(promise.value), Len(videoData))
       THEN /\ ret' = Returned("progressive", "progressive", promise.value,
                               Len(promise.value))
            /\ outcome' = [outcome EXCEPT !["progressive"] = "ok"]
            /\ pc' = "done"
       ELSE /\ outcome' = [outcome EXCEPT !["progressive"] =
                              IF promise.state = "rejected" THEN "threw"
                              ELSE "small"]
            /\ pc' = "fragmented"
            /\ ret' = ret
    /\ UNCHANGED <<scan, bg, dl, patch, vDesc, aDesc, videoData, audioData, muxed, mp4boxLoaded,
                   started, stsd, resolved, promise, fileInfo, trackSamples,
                   timer, demux, builds, muxCalls, built, pf, videoResult>>
\* A fragmented strategy that is tried again when it failed.
FragmentedStrategyRetry ==
    /\ pc = "fragmented"
    /\ started' = Append(started, "fragmented")
    /\ muxCalls' = muxCalls + 1
    /\ \E r \in {binaryMuxFragmentedMP4(videoData, audioData)} :
           /\ videoData' = r.videoData
           /\ audioData' = r.audioData
           /\ muxed' = [error |-> r.error, output |-> r.output]
           /\ IF r.error = "" /\ sizeOk(Len(r.output), Len(videoData))
              THEN /\ ret' = Returned("fragmented", "fragmented", r.output,
                                      Len(r.output))
                   /\ outcome' = [outcome EXCEPT !["fragmented"] = "ok"]
                   /\ pc' = "done"
              ELSE /\ outcome' = [outcome EXCEPT !["fragmented"] =
                                     IF r.error # "" THEN "threw" ELSE "small"]
                   /\ pc' = "fragmented"
                   /\ ret' = ret
    /\ UNCHANGED <<scan, bg, dl, patch, vDesc, aDesc, mp4boxLoaded, stsd, resolved, promise,
                   fileInfo, trackSamples, timer, demux, builds, built, pf,
                   videoResult>>

\* The fragmented strategy: await binaryMuxFragmentedMP4(videoData, audioData).
FragmentedStrategy ==
    /\ pc = "fragmented"
    /\ started' = Append(started, "fragmented")
    /\ muxCalls' = muxCalls + 1
    /\ \E r \in {binaryMuxFragmentedMP4(videoData, audioData)} :
           /\ videoData' = r.videoData
           /\ audioData' = r.audioData
           /\ muxed' = [error |-> r.error, output |-> r.output]
           /\ IF r.error = "" /\ sizeOk(Len(r.output), Len(videoData))
              THEN /\ ret' = Returned("fragmented", "fragmented", r.output,
                                      Len(r.output))
                   /\ outcome' = [outcome EXCEPT !["fragmented"] = "ok"]
                   /\ pc' = "done"
              ELSE /\ outcome' = [outcome EXCEPT !["fragmented"] =
                                     IF r.error # "" THEN "threw" ELSE "small"]
                   /\ pc' = "raw"
                   /\ ret' = ret
    /\ UNCHANGED <<scan, bg, dl, patch, vDesc, aDesc, mp4boxLoaded, stsd, resolved, promise,
                   fileInfo, trackSamples, timer, demux, builds, built, pf,
                   videoResult>>

\* parseFile(data, name) up to the return of its promise.
newParse(name) ==
    [name |-> name, ready |-> FALSE, hasTracks |-> FALSE, totalSamples |-> 0,
     samples |-> 0, extractionDone |-> FALSE, state |-> "pending",
     infoNull |-> TRUE, timer |-> "armed"]

\* resolve({ info, samples, file }) inside parseFile: info is still null
\* when onReady has not run.
resolveParse(p, withInfo) ==
    IF p.state = "pending"
    THEN [p EXCEPT !.state = "fulfilled", !.infoNull = ~withInfo]
    ELSE p

\* The raw path starts: parseFile(videoData, 'Video').
RawStart ==
    /\ pc = "raw"
    /\ started' = Append(started, "raw")
    /\ pf' = newParse("Video")
    /\ pc' = "await_parse"
    /\ UNCHANGED <<scan, bg, dl, patch, vDesc, aDesc, videoData, audioData, muxed, mp4boxLoaded,
                   outcome, ret, stsd, resolved, promise, fileInfo,
                   trackSamples, timer, demux, builds, muxCalls, built,
                   videoResult>>

\* file.onReady of parseFile.
PfReady(hasTracks, nb_samples) ==
    /\ pf.state # "none"
    /\ ~pf.ready
    /\ pf' = IF hasTracks
             THEN [pf EXCEPT !.ready = TRUE, !.hasTracks = TRUE,
                             !.totalSamples = nb_samples]
             ELSE [resolveParse(pf, FALSE) EXCEPT !.ready = TRUE]
    /\ UNCHANGED <<scan, bg, dl, patch, vDesc, aDesc, videoData, audioData, pc, muxed,
                   mp4boxLoaded, started, outcome, ret, stsd, resolved,
                   promise, fileInfo, trackSamples, timer, demux, builds,
                   muxCalls, built, videoResult>>

\* file.onSamples of parseFile with a batch of n samples.
PfSamples(n) ==
    /\ pf.ready /\ pf.hasTracks
    /\ pf.samples + n <= MaxSamples
    /\ LET pushed == [pf EXCEPT !.samples = @ + n]
       IN  pf' = IF pushed.samples >= pushed.totalSamples
                    /\ ~pushed.extractionDone
                 THEN [resolveParse(pushed, TRUE) EXCEPT !.extractionDone = TRUE]
                 ELSE pushed
    /\ UNCHANGED <<scan, bg, dl, patch, vDesc, aDesc, videoData, audioData, pc, muxed,
                   mp4boxLoaded, started, outcome, ret, stsd, resolved,
                   promise, fileInfo, trackSamples, timer, demux, builds,
                   muxCalls, built, videoResult>>

\* file.onError of parseFile.
PfError ==
    /\ pf.state = "pending"
    /\ pf' = [pf EXCEPT !.state = "rejected"]
    /\ UNCHANGED <<scan, bg, dl, patch, vDesc, aDesc, videoData, audioData, pc, muxed,
                   mp4boxLoaded, started, outcome, ret, stsd, resolved,
                   promise, fileInfo, trackSamples, timer, demux, builds,
                   muxCalls, built, videoResult>>

\* The setTimeout callback of parseFile (3000 ms).
PfTimeout ==
    /\ pf.timer = "armed"
    /\ pf' = IF ~pf.extractionDone
             THEN [resolveParse(pf, pf.ready) EXCEPT !.extractionDone = TRUE,
                                                     !.timer = "fired"]
             ELSE [pf EXCEPT !.timer = "fired"]
    /\ UNCHANGED <<scan, bg, dl, patch, vDesc, aDesc, videoData, audioData, pc, muxed,
                   mp4boxLoaded, started, outcome, ret, stsd, resolved,
                   promise, fileInfo, trackSamples, timer, demux, builds,
                   muxCalls, built, videoResult>>

\* A fallback that hands back the wrong buffer.
ReturnAudio == Returned("raw", "video", audioData, Len(audioData))

\* return videoData
ReturnVideo == Returned("raw", "video", videoData, Len(videoData))

\* muxVideoAudio resumes after await parseFile(videoData, 'Video').
AfterParseVideo ==
    /\ pc = "await_parse"
    /\ pf.name = "Video"
    /\ pf.state \in {"fulfilled", "rejected"}
    /\ IF pf.state = "rejected"
       THEN /\ ret' = ReturnVideo
            /\ outcome' = [outcome EXCEPT !["raw"] = "video"]
            /\ pc' = "done"
            /\ UNCHANGED <<pf, videoResult>>
       ELSE /\ videoResult' = [infoNull |-> pf.infoNull,
                              hasTracks |-> pf.hasTracks,
                              samples |-> pf.samples]
            /\ pf' = newParse("Audio")
            /\ UNCHANGED <<ret, outcome, pc>>
    /\ UNCHANGED <<scan, bg, dl, patch, vDesc, aDesc, videoData, audioData, muxed, mp4boxLoaded,
                   started, stsd, resolved, promise, fileInfo, trackSamples,
                   timer, demux, builds, muxCalls, built>>

\* if (output && output.byteLength > 10000)
rawMinSize == 10000

\* muxVideoAudio resumes after await parseFile(audioData, 'Audio') and runs
\* to its return.  What the library does in addTrack and getBuffer is not
\* in this repository: addTrack may throw, getBuffer may throw, and the
\* buffer it returns has some size.
AfterParseAudio ==
    /\ pc = "await_parse"
    /\ pf.name = "Audio"
    /\ pf.state \in {"fulfilled", "rejected"}
    /\ pc' = "done"
    /\ IF pf.state = "rejected"
          \/ videoResult.infoNull \/ ~videoResult.hasTracks
       THEN /\ ret' = ReturnVideo
            /\ outcome' = [outcome EXCEPT !["raw"] = "video"]
       ELSE \E lib \in {"addTrackThrows", "getBufferThrows", "buffer"},
               size \in {rawMinSize, rawMinSize + 1} :
            IF lib = "buffer" /\ size > rawMinSize
            THEN /\ ret' = Returned("raw", "mp4box", <<>>, size)
                 /\ outcome' = [outcome EXCEPT !["raw"] = "ok"]
            ELSE /\ ret' = ReturnVideo
                 /\ outcome' = [outcome EXCEPT !["raw"] = "video"]
    /\ UNCHANGED <<scan, bg, dl, patch, vDesc, aDesc, videoData, audioData, muxed, mp4boxLoaded,
                   started, stsd, resolved, promise, fileInfo, trackSamples,
                   timer, demux, builds, muxCalls, built, pf, videoResult>>

Next ==
    \/ MuxStart
    \/ OnReady
    \/ \E i \in 1..2, n \in BatchSizes : OnSamples(i, n)
    \/ OnError
    \/ OnTimeout
    \/ AfterProgressive
    \/ FragmentedStrategy
    \/ RawStart
    \/ \E hasTracks \in BOOLEAN, nb \in {0, MaxSamples} : PfReady(hasTracks, nb)
    \/ \E n \in BatchSizes : PfSamples(n)
    \/ PfError
    \/ PfTimeout
    \/ AfterParseVideo
    \/ AfterParseAudio

Spec == Init /\ [][Next]_vars
(***************************************************************************)
(* Reference reading of a box tree, used to state the properties below.    *)
(***************************************************************************)
\* The whole boxes that follow one another in data from offset.
RECURSIVE BoxesFrom(_, _)
BoxesFrom(data, offset) ==
    IF offset + 8 > Len(data) THEN <<>>
    ELSE LET size == getUint32(data, offset)
         IN  IF size < 8 \/ offset + size > Len(data) THEN <<>>
             ELSE <<[type |-> typeAt(data, offset), offset |-> offset,
                     size |-> size]>>
                  \o BoxesFrom(data, offset + size)

TopLevel(data) == BoxesFrom(data, 0)
Children(data) == BoxesFrom(data, 8)
BytesOf(data, box) == SubSeq(data, box.offset + 1, box.offset + box.size)
OfType(boxes, type) == SelectSeq(boxes, LAMBDA b : b.type = type)
HasType(boxes, type) == \E i \in 1..Len(boxes) : boxes[i].type = type

\* The first moov of a file.
MoovOf(data) == BytesOf(data, OfType(TopLevel(data), T_moov)[1])

\* track_ID of a trak: the tkhd field after the version/flags word and the
\* two times, which are 4 bytes each in version 0 and 8 bytes in version 1.
TrackIdOf(trak) ==
    LET tkhd == BytesOf(trak, OfType(Children(trak), T_tkhd)[1])
    IN  getUint32(tkhd, IF tkhd[9] = 0 THEN 20 ELSE 28)

\* The track IDs of the traks of a moov, in order.
TrackIds(moov) ==
    LET traks == OfType(Children(moov), T_trak)
    IN  [i \in 1..Len(traks) |-> TrackIdOf(BytesOf(moov, traks[i]))]

FragDone == pc = "frag_done"
FragSucceeded == pc = "frag_done" /\ muxed.error = ""

\* C4 (as stated): binaryMuxFragmentedMP4 leaves videoData and audioData
\* byte-for-byte as they were before the call.
C4_InputsUnchanged ==
    FragDone => videoData = Stream(vDesc) /\ audioData = Stream(aDesc)

\* C4: a call that succeeded on an audio stream holding a sidx.
C4_SidxMuxed ==
    FragSucceeded /\ HasType(TopLevel(Stream(aDesc)), T_sidx)

\* C5 (as stated): in every fragmented output of a video stream with one
\* track and an audio stream, the video trak carries track ID 1 and the
\* audio trak track ID 2, whatever the IDs in the sources.
C5_TrackIdsOneTwo ==
    FragSucceeded /\ Len(TrackIds(MoovOf(Stream(vDesc)))) = 1 =>
        TrackIds(MoovOf(muxed.output)) = <<1, 2>>

\* C5: a video stream whose track ID is not 1 was muxed.
C5_ForeignVideoId ==
    FragSucceeded /\ TrackIds(MoovOf(Stream(vDesc))) # <<1>>

\* C6 (as stated): when the video moov has an mvex, mvex is the last child
\* of the merged moov and the audio trak stands before it.
C6_MvexLast ==
    FragSucceeded /\ HasType(Children(MoovOf(Stream(vDesc))), T_mvex) =>
        LET c == Children(MoovOf(muxed.output))
        IN  /\ c[Len(c)].type = T_mvex
            /\ \E i \in 1..(Len(c) - 1) :
                  c[i].type = T_trak /\ TrackIdOf(BytesOf(MoovOf(muxed.output), c[i])) = 2

\* C6: a video moov with mvex was merged with an audio moov without trex.
C6_NoAudioTrex ==
    /\ FragSucceeded
    /\ HasType(Children(MoovOf(Stream(vDesc))), T_mvex)
    /\ ~HasType(Children(MoovOf(Stream(aDesc))), T_mvex)
\* The styp, sidx, moof and mdat boxes among the top-level boxes of a
\* stream, in stream order; a box cut off by the end of the stream counts
\* with the bytes that are there.
FragmentBoxes(data) ==
    LET boxes == parseBoxes(data).boxes
        clamp(b) == [type |-> b.type, offset |-> b.offset,
                     size |-> Min(b.size, Len(data) - b.offset)]
    IN  SelectSeq([i \in 1..Len(boxes) |-> clamp(boxes[i])],
                  LAMBDA b : b.type \in {T_styp, T_sidx, T_moof, T_mdat})

RECURSIVE ConcatBoxes(_, _, _)
ConcatBoxes(data, boxes, i) ==
    IF i > Len(boxes) THEN <<>>
    ELSE BytesOf(data, boxes[i]) \o ConcatBoxes(data, boxes, i + 1)

\* part is the concatenation of the boxes of data, up to the payload of the
\* sidx and moof boxes (where the track IDs are patched).
RECURSIVE SameFragments(_, _, _, _, _)
SameFragments(data, boxes, i, part, at) ==
    IF i > Len(boxes) THEN at = Len(part)
    ELSE LET b == boxes[i]
             n == IF b.type \in {T_sidx, T_moof} THEN Min(8, b.size) ELSE b.size
         IN  /\ at + b.size <= Len(part)
             /\ SubSeq(part, at + 1, at + n) = SubSeq(data, b.offset + 1, b.offset + n)
             /\ SameFragments(data, boxes, i + 1, part, at + b.size)

\* C7: a fragmented output is the video ftyp, one moov box, the fragment
\* boxes of the video stream in stream order, then the fragment boxes of the
\* audio stream in stream order, and nothing else.
C7_OutputLayout ==
    FragSucceeded =>
        LET v == Stream(vDesc)
            a == Stream(aDesc)
            out == muxed.output
            ftyp == BytesOf(v, OfType(TopLevel(v), T_ftyp)[1])
            moovLen == getUint32(out, Len(ftyp))
            V == ConcatBoxes(v, FragmentBoxes(v), 1)
            A == ConcatBoxes(a, FragmentBoxes(a), 1)
            aStart == Len(ftyp) + moovLen + Len(V)
        IN  /\ Len(out) = Len(ftyp) + moovLen + Len(V) + Len(A)
            /\ SubSeq(out, 1, Len(ftyp)) = ftyp
            /\ typeAt(out, Len(ftyp)) = T_moov
            /\ SubSeq(out, Len(ftyp) + moovLen + 1, aStart) = V
            /\ SameFragments(a, FragmentBoxes(a), 1,
                             SubSeq(out, aStart + 1, Len(out)), 0)

\* C7: both streams held fragments, the video stream a styp among them.
C7_BothFragmented ==
    /\ FragSucceeded
    /\ HasType(FragmentBoxes(Stream(vDesc)), T_styp)
    /\ HasType(FragmentBoxes(Stream(vDesc)), T_mdat)
    /\ HasType(FragmentBoxes(Stream(aDesc)), T_moof)

\* A buffer is truncated inside a box: the last box found by walking the
\* size fields declares more bytes than are left.
RECURSIVE TruncatedAt(_, _)
TruncatedAt(data, offset) ==
    IF offset + 8 > Len(data) THEN FALSE
    ELSE LET size == getUint32(data, offset)
         IN  IF size < 8 THEN FALSE
             ELSE IF offset + size > Len(data) THEN TRUE
             ELSE TruncatedAt(data, offset + size)

\* C8 (as stated): on a stream truncated inside a box parseBoxes does not
\* throw and returns only boxes that lie completely inside the buffer, and
\* the assembler does not fail because of the truncated box.
C8_TruncatedBoxDropped ==
    FragDone /\ TruncatedAt(Stream(vDesc), 0) /\ ~TruncatedAt(Stream(aDesc), 0) =>
        LET r == parseBoxes(Stream(vDesc))
        IN  /\ ~r.threw
            /\ \A i \in 1..Len(r.boxes) : viewFits(Stream(vDesc), r.boxes[i])
            /\ muxed.error # "RangeError"

\* C8: the call ran on a video stream truncated inside its last box.
C8_TruncatedVideo ==
    FragDone /\ TruncatedAt(Stream(vDesc), 0)

\* A required box is absent: video ftyp or moov, audio moov, audio trak.
MissingRequired ==
    \/ ~HasType(TopLevel(Stream(vDesc)), T_ftyp)
    \/ ~HasType(TopLevel(Stream(vDesc)), T_moov)
    \/ ~HasType(TopLevel(Stream(aDesc)), T_moov)
    \/ ~HasType(Children(MoovOf(Stream(aDesc))), T_trak)

\* C9 (as stated): binaryMuxFragmentedMP4 fails, with no output, exactly
\* when a required box is absent.
C9_FailsIffMissing ==
    FragDone => /\ (muxed.error # "") = MissingRequired
                /\ (muxed.error # "" => muxed.output = <<>>)

\* C9: a call failed although no required box was absent.
C9_FailedWithAllBoxes ==
    FragDone /\ muxed.error # "" /\ ~MissingRequired
(***************************************************************************)
(* Properties of muxVideoAudio (Spec).                                     *)
(***************************************************************************)
StrategyOrder == <<"progressive", "fragmented", "raw">>

\* An output of at most 90% of the byte length of the input video.
TooSmall(output) == 10 * Len(output) <= 9 * Len(Stream(vDesc))

ProgressiveFailed ==
    \/ promise.state = "rejected"
    \/ promise.state = "fulfilled" /\ TooSmall(promise.value)

FragmentedFailed == muxed.error # "" \/ TooSmall(muxed.output)

\* C1: the strategies start in the order progressive, fragmented, raw, each
\* later one only after every earlier one threw or gave an output of at
\* most 90% of the video; what is returned is the output of the first
\* strategy that did neither.
C1_StrategyOrder ==
    /\ started = SubSeq(StrategyOrder, 1, Len(started))
    /\ (Len(started) >= 2 => ProgressiveFailed)
    /\ (Len(started) >= 3 => FragmentedFailed)
    /\ (ret.state = "returned" =>
          \/ /\ ret.by = "progressive"
             /\ started = <<"progressive">>
             /\ promise.state = "fulfilled"
             /\ ret.data = promise.value
             /\ ~TooSmall(ret.data)
          \/ /\ ret.by = "fragmented"
             /\ started = <<"progressive", "fragmented">>
             /\ muxed.error = ""
             /\ ret.data = muxed.output
             /\ ~TooSmall(ret.data)
          \/ /\ ret.by = "raw"
             /\ started = StrategyOrder)

\* C1: the progressive output was built but too small, and the fragmented
\* output was returned.
C1_FellBackToFragmented ==
    /\ ret.state = "returned"
    /\ ret.by = "fragmented"
    /\ promise.state = "fulfilled"

\* C2 (as stated): muxVideoAudio never throws, whatever fails.
C2_NeverThrows == ret.state # "threw"

\* C2: muxVideoAudio throws only when the MP4Box library is not loaded, and
\* then before any strategy starts; with the library loaded it ends by
\* returning a buffer, and where that is the fallback it is the original
\* video input.
C2_ThrowsOnlyWithoutMP4Box ==
    /\ (ret.state = "threw" =>
          /\ ~mp4boxLoaded
          /\ started = <<>>
          /\ ret.error = "MP4Box library not loaded")
    /\ (~mp4boxLoaded /\ pc = "done" => ret.state = "threw")
    /\ (mp4boxLoaded /\ pc = "done" =>
          /\ ret.state = "returned"
          /\ (ret.kind = "video" => ret.data = Stream(vDesc)))

\* C2: every strategy failed and the video input was returned.
C2_FellBackToVideo ==
    /\ pc = "done"
    /\ mp4boxLoaded
    /\ started = StrategyOrder
    /\ ret.kind = "video"
    /\ outcome["progressive"] = "threw"
    /\ outcome["fragmented"] = "threw"

\* Some samples were gathered by the progressive path.
SomeGathered ==
    fileInfo.ready /\ \E i \in 1..Len(trackSamples) : Len(trackSamples[i]) > 0

\* C3 (as stated): a timeout of the sample collection after some samples
\* were gathered does not make the progressive strategy fail.
C3_TimeoutKeepsPartial ==
    timer = "fired" /\ SomeGathered => promise.reason # "Timeout"

\* C3: the timer fired while a track was still short of its samples.
C3_TimedOutShort ==
    /\ timer = "fired"
    /\ SomeGathered
    /\ builds = 0
    /\ \E i \in 1..Len(trackSamples) :
          Len(trackSamples[i]) < fileInfo.tracks[i].nb_samples
(***************************************************************************)
(* SpecBuild: buildMP4WithRawStsd applied to track lists as buildOutput    *)
(* hands them over.                                                        *)
(***************************************************************************)
\* What a sample can be like: its byte length, its duration, whether it is
\* a sync sample, and how far its composition time lies after its decode
\* time.
SampleKinds ==
    {[size |-> 1, duration |-> 10, is_sync |-> TRUE, offset |-> 0],
     [size |-> 2, duration |-> 10, is_sync |-> FALSE, offset |-> 5],
     [size |-> 3, duration |-> 20, is_sync |-> FALSE, offset |-> 0],
     [size |-> 1, duration |-> 0, is_sync |-> TRUE, offset |-> 0]}

KindSeqs == UNION {[1..n -> SampleKinds] : n \in 0..MaxSamples}

RECURSIVE DtsOf(_, _)
DtsOf(kinds, k) == IF k <= 1 THEN 0 ELSE DtsOf(kinds, k - 1) + kinds[k - 1].duration

SamplesOf(kinds, tag) ==
    [k \in 1..Len(kinds) |->
        [data |-> Fill(kinds[k].size, tag + k),
         duration |-> kinds[k].duration,
         dts |-> DtsOf(kinds, k),
         cts |-> DtsOf(kinds, k) + kinds[k].offset,
         is_sync |-> kinds[k].is_sync]]

VideoTrack(id, kinds) ==
    [id |-> id, type |-> "video", timescale |-> 1000,
     duration |-> DtsOf(kinds, Len(kinds) + 1), width |-> 16, height |-> 9,
     samples |-> SamplesOf(kinds, 200),
     rawStsd |-> [NotFound EXCEPT !.found = TRUE, !.data = Stsd(16),
                                  !.size = Len(Stsd(16))]]

AudioTrack(id, kinds, hasStsd) ==
    [id |-> id, type |-> "audio", timescale |-> 3000,
     duration |-> DtsOf(kinds, Len(kinds) + 1), width |-> 0, height |-> 0,
     samples |-> SamplesOf(kinds, 100),
     rawStsd |-> IF hasStsd
                 THEN [NotFound EXCEPT !.found = TRUE, !.data = Stsd(80),
                                       !.size = Len(Stsd(80))]
                 ELSE NotFound]

\* Two fixed sample lists for the second track of a pair.
OneKind == <<CHOOSE k \in SampleKinds : k.size = 2>>
FullKinds == [i \in 1..MaxSamples |-> CHOOSE k \in SampleKinds : k.size = 3]

\* Three samples of durations 10, 10 and 5.
ScenarioKinds ==
    LET k(d) == [size |-> 1, duration |-> d, is_sync |-> TRUE, offset |-> 0]
    IN  <<k(10), k(10), k(5)>>

\* Three samples, the last two composed before they are decoded.
EarlyKinds ==
    LET k(o) == [size |-> 1, duration |-> 10, is_sync |-> (o = 0), offset |-> o]
    IN  <<k(0), k(-5), k(-5)>>

BuildInputs ==
    {<<VideoTrack(1, ks)>> : ks \in KindSeqs \cup {ScenarioKinds, EarlyKinds}}
    \cup {<<AudioTrack(1, ks, FALSE)>> : ks \in KindSeqs}
    \cup {<<VideoTrack(1, ks), AudioTrack(2, ks2, TRUE)>> :
            ks \in KindSeqs, ks2 \in {OneKind, FullKinds}}
    \cup {<<VideoTrack(2, OneKind), AudioTrack(1, ks, TRUE)>> : ks \in KindSeqs}

InitBuild ==
    /\ built \in BuildInputs
    /\ vDesc = Nominal(16)
    /\ aDesc = Nominal(80)
    /\ videoData = Stream(vDesc)
    /\ audioData = Stream(aDesc)
    /\ pc = "build_call"
    /\ muxed = NoResult
    /\ mp4boxLoaded = TRUE
    /\ patch = NoPatch
    /\ dl = NoDownload
    /\ Apart
    /\ MuxIdle

\* const output = buildMP4WithRawStsd(tracks, fileInfo); resolve(output)
BuildCall ==
    /\ pc = "build_call"
    /\ promise' = [state |-> "fulfilled", value |-> buildMP4WithRawStsd(built),
                   reason |-> ""]
    /\ builds' = builds + 1
    /\ pc' = "build_done"
    /\ UNCHANGED <<scan, bg, dl, patch, vDesc, aDesc, videoData, audioData, muxed, mp4boxLoaded,
                   started, outcome, ret, stsd, resolved, fileInfo,
                   trackSamples, timer, demux, muxCalls, built, pf,
                   videoResult>>

NextBuild == BuildCall
SpecBuild == InitBuild /\ [][NextBuild]_vars

\* The first box of each type along path, from the children of data down.
RECURSIVE Descend(_, _, _)
Descend(data, path, i) ==
    IF i > Len(path) THEN data
    ELSE Descend(BytesOf(data, OfType(Children(data), path[i])[1]), path, i + 1)

\* The one chunk offset of a trak: stco holds version/flags, the entry
\* count and the entries.
StcoOffset(trak) ==
    getUint32(Descend(trak, <<T_mdia, T_minf, T_stbl, T_stco>>, 1), 16)

RECURSIVE DataBytes(_, _)
DataBytes(samples, k) ==
    IF k > Len(samples) THEN <<>>
    ELSE samples[k].data \o DataBytes(samples, k + 1)

RECURSIVE DataBefore(_, _)
DataBefore(tracks, i) ==
    IF i <= 1 THEN 0
    ELSE DataBefore(tracks, i - 1) + Len(DataBytes(tracks[i - 1].samples, 1))

\* C10: in a progressive output the chunk offset of each track is the file
\* position where its sample data begins: len(ftyp) + len(moov) + 8 for the
\* first track, the data of the earlier tracks further on for the others;
\* the moov of the placeholder pass is as long as the final moov.
C10_ChunkOffsets ==
    pc = "build_done" =>
        LET out == promise.value
            top == TopLevel(out)
            moov == BytesOf(out, top[2])
            traks == OfType(Children(moov), T_trak)
            start(i) == top[1].size + Len(moov) + 8 + DataBefore(built, i)
        IN  /\ Len(top) = 3
            /\ top[1].type = T_ftyp /\ top[2].type = T_moov /\ top[3].type = T_mdat
            /\ Len(traks) = Len(built)
            /\ \A i \in 1..Len(built) :
                 /\ StcoOffset(BytesOf(moov, traks[i])) = start(i)
                 /\ SubSeq(out, start(i) + 1,
                           start(i) + Len(DataBytes(built[i].samples, 1)))
                      = DataBytes(built[i].samples, 1)
            /\ Len(makeBox(T_moov, buildMvhdBox(built) \o tempTraks(built, 1)))
                 = Len(moov)

\* C10: a file of two tracks, both with sample data, was built.
C10_TwoTracksBuilt ==
    /\ pc = "build_done"
    /\ Len(built) = 2
    /\ Len(built[1].samples) > 0
    /\ Len(built[2].samples) > 0
(***************************************************************************)
(* Reference reading of the sample tables of a progressive output.         *)
(***************************************************************************)
\* The traks of the moov of a progressive file, each as its bytes.
TraksOf(out) ==
    LET moov == MoovOf(out)
        traks == OfType(Children(moov), T_trak)
    IN  [i \in 1..Len(traks) |-> BytesOf(moov, traks[i])]

\* The stbl of a trak.
StblOf(trak) == Descend(trak, <<T_mdia, T_minf, T_stbl>>, 1)

\* A full-box table of 8-byte entries: version/flags, entry count, then
\* for each entry two 32-bit fields.
TableEntries(box) ==
    [k \in 1..getUint32(box, 12) |->
        [a |-> getUint32(box, 16 + 8 * (k - 1)),
         b |-> getUint32(box, 20 + 8 * (k - 1))]]

\* The run-length entries (count a, value b) written out one per sample.
RECURSIVE Expand(_, _)
Expand(entries, k) ==
    IF k > Len(entries) THEN <<>>
    ELSE [j \in 1..entries[k].a |-> entries[k].b] \o Expand(entries, k + 1)

Durations(samples) == [k \in 1..Len(samples) |-> samples[k].duration]

BuildDone == pc = "build_done"

\* C11: the (count, duration) entries of the stts table of every built
\* track, expanded in order, are the durations of its samples; durations
\* 10, 10, 5 give the entries (2, 10), (1, 5).
C11_SttsRoundTrip ==
    BuildDone =>
        \A i \in 1..Len(built) :
            LET stts == Descend(StblOf(TraksOf(promise.value)[i]), <<T_stts>>, 1)
                entries == TableEntries(stts)
            IN  /\ Len(stts) = 16 + 8 * Len(entries)
                /\ Expand(entries, 1) = Durations(built[i].samples)
                /\ (Durations(built[i].samples) = <<10, 10, 5>> =>
                      entries = <<[a |-> 2, b |-> 10], [a |-> 1, b |-> 5]>>)

\* C11: a track with durations 10, 10, 5 was built.
C11_ScenarioBuilt ==
    BuildDone /\ \E i \in 1..Len(built) :
        Durations(built[i].samples) = <<10, 10, 5>>
\* The 1-based positions of the sync samples, in increasing order.
SyncPositions(samples) ==
    SelectSeq([k \in 1..Len(samples) |-> k], LAMBDA k : samples[k].is_sync)

\* A full-box table of 4-byte entries.
ListEntries(box) ==
    [k \in 1..getUint32(box, 12) |-> getUint32(box, 16 + 4 * (k - 1))]

\* C12: a built track has no stss box when all of its samples are sync
\* samples and none when no sample is; an stss box that is there lists
\* exactly the 1-based positions of the sync samples, in increasing order.
C12_StssTable ==
    BuildDone =>
        \A i \in 1..Len(built) :
            LET stbl == StblOf(TraksOf(promise.value)[i])
                sync == SyncPositions(built[i].samples)
            IN  /\ (Len(sync) = Len(built[i].samples) \/ Len(sync) = 0 =>
                      ~HasType(Children(stbl), T_stss))
                /\ (HasType(Children(stbl), T_stss) =>
                      ListEntries(Descend(stbl, <<T_stss>>, 1)) = sync)

\* C12: a track of more than one sample was built with an stss box.
C12_StssEmitted ==
    BuildDone /\ \E i \in 1..Len(built) :
        /\ Len(built[i].samples) > 1
        /\ HasType(Children(StblOf(TraksOf(promise.value)[i])), T_stss)
\* The signed 32-bit big-endian integer at off.
SignedAt(b, off) ==
    (IF b[off + 1] >= 128 THEN b[off + 1] - 256 ELSE b[off + 1]) * 16777216
    + b[off + 2] * 65536 + b[off + 3] * 256 + b[off + 4]

\* The (count, signed offset) entries of a ctts box.
CttsEntries(box) ==
    [k \in 1..getUint32(box, 12) |->
        [a |-> getUint32(box, 16 + 8 * (k - 1)),
         b |-> SignedAt(box, 20 + 8 * (k - 1))]]

Offsets(samples) == [k \in 1..Len(samples) |-> samples[k].cts - samples[k].dts]

\* C13: a built track has a ctts box exactly when some sample has a
\* composition time other than its decode time, and the (count, offset)
\* entries of that box, expanded in order, are the differences cts - dts of
\* its samples.
C13_CttsTable ==
    BuildDone =>
        \A i \in 1..Len(built) :
            LET stbl == StblOf(TraksOf(promise.value)[i])
                offs == Offsets(built[i].samples)
            IN  /\ HasType(Children(stbl), T_ctts)
                     = (\E k \in 1..Len(offs) : offs[k] # 0)
                /\ (HasType(Children(stbl), T_ctts) =>
                      Expand(CttsEntries(Descend(stbl, <<T_ctts>>, 1)), 1) = offs)

\* C13: a track with a negative and a zero offset was built, beside one
\* whose samples all have cts = dts.
C13_CttsEmitted ==
    BuildDone /\ \E i \in 1..Len(built) :
        /\ \E k \in 1..Len(built[i].samples) :
              built[i].samples[k].cts < built[i].samples[k].dts
        /\ \E k \in 1..Len(built[i].samples) :
              built[i].samples[k].cts = built[i].samples[k].dts
\* The boxes read from offset cover data up to its last byte.
Tiled(data, offset) ==
    LET boxes == BoxesFrom(data, offset)
    IN  /\ Len(boxes) > 0
        /\ boxes[Len(boxes)].offset + boxes[Len(boxes)].size = Len(data)

ContainerTypes == {T_moov, T_trak, T_mdia, T_minf, T_dinf, T_stbl}

RECURSIVE NestedOk(_)
\* The size field of box is its length, and so for every box nested in it.
NestedOk(box) ==
    /\ getUint32(box, 0) = Len(box)
    /\ typeAt(box, 0) \in ContainerTypes =>
          /\ Tiled(box, 8)
          /\ \A k \in 1..Len(Children(box)) :
                NestedOk(BytesOf(box, Children(box)[k]))

\* C14: in the output of the progressive builder the top-level boxes cover
\* the file, every container's size is 8 plus the sum of its children's
\* sizes at every depth, and the sample tables and mdat are 8 plus the
\* length their entry counts and the sample sizes give.
C14_BoxSizes ==
    BuildDone =>
        LET out == promise.value
            top == TopLevel(out)
        IN  /\ Tiled(out, 0)
            /\ \A k \in 1..Len(top) : NestedOk(BytesOf(out, top[k]))
            /\ OfType(top, T_mdat)[1].size
                 = 8 + DataBefore(built, Len(built) + 1)
            /\ \A i \in 1..Len(built) :
                 LET stbl == StblOf(TraksOf(out)[i])
                     n == Len(built[i].samples)
                     sz(t) == OfType(Children(stbl), t)[1].size
                     cnt(t) == getUint32(Descend(stbl, <<t>>, 1), 12)
                 IN  /\ sz(T_stts) = 8 + 8 + 8 * cnt(T_stts)
                     /\ sz(T_stsz) = 8 + 12 + 4 * n
                     /\ sz(T_stco) = 8 + 8 + 4 * cnt(T_stco)
                     /\ sz(T_stsc) = 8 + 8 + 12 * cnt(T_stsc)

\* C14: two tracks were built, one of them with both an stss and a ctts box.
C14_DeepOutput ==
    BuildDone /\ Len(built) = 2
    /\ \E i \in 1..Len(built) :
          LET boxes == Children(StblOf(TraksOf(promise.value)[i]))
          IN  HasType(boxes, T_stss) /\ HasType(boxes, T_ctts)
(***************************************************************************)
(* The track-ID patchers on their own: each is handed one box, as at its   *)
(* call site, and is applied to it in place up to MaxPatches times.        *)
(***************************************************************************)
MaxBoxLen == 32
MaxPatches == 2

\* A box of n bytes whose size field says n; content starts with head.
ShortBox(type, head, n) ==
    U32Bytes(n) \o type \o SubSeq(head \o Fill(n, 7), 1, n - 8)

BoxLens == 8..MaxBoxLen

\* A trak whose tkhd child has n bytes, alone or followed by an mdia box.
ShortTkhdTrak(ver, n, sibling) ==
    Box(T_trak, ShortBox(T_tkhd, <<ver, 0, 0, 0>>, n)
                \o (IF sibling THEN Box(T_mdia, Fill(MaxBoxLen, 9)) ELSE <<>>))

\* A moof whose traf holds a tfhd child of n bytes, alone or followed by a
\* trun box.
ShortTfhdMoof(n, sibling) ==
    Box(T_moof, Box(T_mfhd, Zeros(4) \o U32Bytes(1))
                \o Box(T_traf, ShortBox(T_tfhd, <<0, 0, 0, 0>>, n)
                               \o (IF sibling THEN Box(T_trun, Fill(MaxBoxLen, 9))
                                   ELSE <<>>)))

PatchInputs ==
    {[fn |-> "sidx", box |-> ShortBox(T_sidx, <<0, 0, 0, 0>>, n)] : n \in BoxLens}
    \cup {[fn |-> "trex", box |-> ShortBox(T_trex, <<0, 0, 0, 0>>, n)] :
            n \in BoxLens}
    \cup {[fn |-> "trak", box |-> ShortTkhdTrak(ver, n, sib)] :
            ver \in {0, 1}, n \in BoxLens, sib \in BOOLEAN}
    \cup {[fn |-> "moof", box |-> ShortTfhdMoof(n, sib)] :
            n \in BoxLens, sib \in BOOLEAN}
    \cup {[fn |-> "trak", box |-> Box(T_trak, Mdia(TRUE, 5))],
          [fn |-> "trak", box |-> Box(T_trak, Mdia(TRUE, 5) \o Tkhd(0, 1))],
          [fn |-> "trak", box |-> Box(T_trak, Mdia(TRUE, 5) \o Tkhd(1, 1))]}

InitPatch ==
    /\ \E i \in PatchInputs :
          patch = [fn |-> i.fn, box |-> i.box, data |-> i.box, once |-> <<>>,
                   calls |-> 0, threw |-> FALSE]
    /\ vDesc = Nominal(16)
    /\ aDesc = Nominal(80)
    /\ videoData = Stream(vDesc)
    /\ audioData = Stream(aDesc)
    /\ pc = "patch_call"
    /\ dl = NoDownload
    /\ Apart
    /\ muxed = NoResult
    /\ mp4boxLoaded = TRUE
    /\ built = <<>>
    /\ MuxIdle

CanPatch(fn) == patch.fn = fn /\ patch.calls < MaxPatches

Patched(data, threw) ==
    /\ patch' = [patch EXCEPT !.data = data, !.threw = threw, !.calls = @ + 1,
                              !.once = IF patch.calls = 0 THEN data ELSE @]
    /\ UNCHANGED <<scan, bg, dl, vDesc, aDesc, videoData, audioData, pc, muxed,
                   mp4boxLoaded, started, outcome, ret, stsd, resolved,
                   promise, fileInfo, trackSamples, timer, demux, builds,
                   muxCalls, built, pf, videoResult>>

\* updateTrackIdInSidx(frag.data, 2)
PatchSidx ==
    /\ CanPatch("sidx")
    /\ Patched(updateTrackIdInSidx(patch.data, 2), FALSE)

\* updateTrackIdInTrex(audioTrexCopy, 2)
PatchTrex ==
    /\ CanPatch("trex")
    /\ Patched(updateTrackIdInTrex(patch.data, 2), FALSE)

\* updateTrackIdInTrak(audioTrakCopy, 2)
PatchTrak ==
    /\ CanPatch("trak")
    /\ \E r \in {updateTrackIdInTrak(patch.data, 2)} : Patched(r.data, r.threw)

\* updateTrackIdInMoof(moofData, 2)
PatchMoof ==
    /\ CanPatch("moof")
    /\ \E r \in {updateTrackIdInMoof(patch.data, 2)} : Patched(r.data, r.threw)

NextPatch == PatchSidx \/ PatchTrex \/ PatchTrak \/ PatchMoof
SpecPatch == InitPatch /\ [][NextPatch]_vars
\* The box the patcher writes into: the sidx or trex itself, the first child
\* of the trak (its tkhd), the first child of the moof's traf (its tfhd).
TargetSize ==
    CASE patch.fn \in {"sidx", "trex"} -> Len(patch.box)
      [] patch.fn = "trak" -> getUint32(patch.box, 8)
      [] patch.fn = "moof" -> getUint32(patch.box, 8 + 16 + 8)

\* The target is too short to hold the track-ID field: 4 bytes at offset 12
\* of a sidx, trex or tfhd, at offset 20 of a version 0 tkhd and 28 of any
\* other.
TooShort ==
    CASE patch.fn \in {"sidx", "trex", "moof"} -> TargetSize < 16
      [] patch.fn = "trak" ->
            \/ TargetSize < 24
            \/ patch.box[8 + 8 + 1] # 0 /\ TargetSize < 32

\* C15: a track-ID patcher applied to a box too short to hold the field
\* leaves every byte as it was and raises nothing, whichever of the four
\* patchers it is.
C15_ShortBoxNoOp ==
    (patch.calls >= 1 /\ TooShort) => (~patch.threw /\ patch.data = patch.box)

\* The sidx and trex patchers do leave a short box alone.
SidxTrexShortNoOp ==
    (patch.calls >= 1 /\ TooShort /\ patch.fn \in {"sidx", "trex"})
        => (~patch.threw /\ patch.data = patch.box)

\* C15: the tkhd patcher raised on a trak whose tkhd is too short.
C15_ShortTkhdRaised ==
    patch.fn = "trak" /\ patch.calls >= 1 /\ TooShort /\ patch.threw

\* The tkhd patcher wrote outside a tkhd that is too short.
ShortTkhdOverwritten ==
    patch.fn = "trak" /\ patch.calls >= 1 /\ TooShort /\ patch.data # patch.box

\* The tfhd patcher raised / wrote outside a tfhd that is too short.
ShortTfhdRaised ==
    patch.fn = "moof" /\ patch.calls >= 1 /\ TooShort /\ patch.threw

ShortTfhdOverwritten ==
    patch.fn = "moof" /\ patch.calls >= 1 /\ TooShort /\ patch.data # patch.box
\* C16: for each of the four patchers and every box, the bytes after the
\* patch was applied twice with the same new ID are the bytes after it was
\* applied once.
C16_PatchIdempotent ==
    patch.calls >= 2 => patch.data = patch.once

\* C16: a patcher ran twice on a box that its first run changed.
C16_PatchedTwice ==
    patch.calls = 2 /\ patch.once # patch.box /\ patch.fn = "trex"
(***************************************************************************)
(* downloadDashVideo and the cancel button of the progress popup.          *)
(***************************************************************************)
MaxDownloads == 2

Runs == 1..Len(dl.runs)

Engine ==
    UNCHANGED <<scan, bg, patch, vDesc, aDesc, videoData, audioData, pc, muxed,
                mp4boxLoaded, started, outcome, ret, stsd, resolved, promise,
                fileInfo, trackSamples, timer, demux, builds, muxCalls,
                built, pf, videoResult>>

InitDownload ==
    /\ dl = NoDownload
    /\ Apart
    /\ patch = NoPatch
    /\ vDesc = Nominal(16)
    /\ aDesc = Nominal(80)
    /\ videoData = Stream(vDesc)
    /\ audioData = Stream(aDesc)
    /\ pc = "download"
    /\ muxed = NoResult
    /\ mp4boxLoaded = TRUE
    /\ built = <<>>
    /\ MuxIdle

\* Run r moves to stage.
step(r, stage) == [dl EXCEPT !.runs[r].stage = stage]

\* downloadBlob(blob, filename) by run r: the file is handed to the user.
\* late records whether cancel had been pressed on the run by then.
downloadBlob(d, r, kind) ==
    [d EXCEPT !.delivered =
        Append(@, [run |-> r, kind |-> kind, late |-> d.runs[r].cancelled])]

\* downloadDashVideo up to its first await; a call made while isDownloading
\* is set only alerts and returns.
StartDownload ==
    /\ ~dl.isDownloading
    /\ Len(dl.runs) < MaxDownloads
    /\ dl' = [dl EXCEPT !.isDownloading = TRUE, !.popup = TRUE,
                        !.runs = Append(@, [stage |-> "parsing",
                                            hasAudio |-> FALSE,
                                            cancelled |-> FALSE])]
    /\ Engine

\* await parseMPD(mpdUrl) settles: it threw or found no video stream, or
\* the best video and (if any) the best audio representation are chosen.
ParsedMPD(r) ==
    /\ dl.runs[r].stage = "parsing"
    /\ \/ dl' = step(r, "error")
       \/ \E a \in BOOLEAN :
             dl' = [dl EXCEPT !.runs[r].stage = "video", !.runs[r].hasAudio = a]
    /\ Engine

\* await downloadSegments(bestVideo, ...) settles; without an audio stream
\* the video is saved as it is.
DownloadedVideo(r) ==
    /\ dl.runs[r].stage = "video"
    /\ \/ dl' = step(r, "error")
       \/ dl.runs[r].hasAudio /\ dl' = step(r, "audio")
       \/ ~dl.runs[r].hasAudio
          /\ dl' = downloadBlob(step(r, "closing"), r, "video")
    /\ Engine

\* await downloadSegments(bestAudio, ...) settles.
DownloadedAudio(r) ==
    /\ dl.runs[r].stage = "audio"
    /\ \/ dl' = step(r, "error")
       \/ dl' = step(r, "muxing")
    /\ Engine

\* await muxVideoAudio(videoData, audioData, ...) settles: the muxed file is
\* saved, or, when it threw, the video file is saved and the audio file
\* follows 500 ms later.
Muxed(r) ==
    /\ dl.runs[r].stage = "muxing"
    /\ \/ dl' = downloadBlob(step(r, "closing"), r, "muxed")
       \/ dl' = downloadBlob(step(r, "fallback"), r, "video")
    /\ Engine

\* The 500 ms pause of the fallback is over.
FallbackAudio(r) ==
    /\ dl.runs[r].stage = "fallback"
    /\ dl' = downloadBlob(step(r, "closing"), r, "audio")
    /\ Engine

\* The timer set after the file was saved, or the one of the outer catch:
\* hideProgressPopup(); isDownloading = false.
CloseTimer(r) ==
    /\ dl.runs[r].stage \in {"closing", "error"}
    /\ dl' = [dl EXCEPT !.isDownloading = FALSE, !.popup = FALSE,
                        !.runs[r].stage = "done"]
    /\ Engine

\* A click on the cancel button of the popup: isDownloading = false.  The
\* next statement assigns to currentDownloadResolve, which is declared
\* nowhere in this strict-mode script, so the handler ends there with a
\* ReferenceError and hideProgressPopup() is not reached.  Nothing tells a
\* running downloadDashVideo about the click.
Cancel ==
    /\ dl.popup
    /\ dl' = [dl EXCEPT !.isDownloading = FALSE,
                        !.runs = [r \in Runs |->
                                    IF dl.runs[r].stage # "done"
                                    THEN [dl.runs[r] EXCEPT !.cancelled = TRUE]
                                    ELSE dl.runs[r]]]
    /\ Engine

NextDownload ==
    \/ StartDownload
    \/ Cancel
    \/ \E r \in Runs : ParsedMPD(r)
    \/ \E r \in Runs : DownloadedVideo(r)
    \/ \E r \in Runs : DownloadedAudio(r)
    \/ \E r \in Runs : Muxed(r)
    \/ \E r \in Runs : FallbackAudio(r)
    \/ \E r \in Runs : CloseTimer(r)

SpecDownload == InitDownload /\ [][NextDownload]_vars

\* C17: once the user has pressed cancel on a download in progress, no file
\* of that download is handed to the user: downloadBlob is not invoked for
\* it, whatever stage it was in.
C17_CancelDiscards ==
    \A k \in 1..Len(dl.delivered) : ~dl.delivered[k].late

\* C17: a download was cancelled while its streams were being fetched and
\* its muxed file was saved all the same.
C17_SavedAfterCancel ==
    \E k \in 1..Len(dl.delivered) :
        dl.delivered[k].late /\ dl.delivered[k].kind = "muxed"
(***************************************************************************)
(* The sample collection of defragmentWithRawStsd.                         *)
(***************************************************************************)
\* Collecting while the promise is pending; then Complete (fulfilled with
\* the built file), TimedOut (rejected by the timer) or Failed.
Collection ==
    CASE promise.state = "none" -> "Idle"
      [] promise.state = "pending" -> "Collecting"
      [] promise.state = "fulfilled" -> "Complete"
      [] promise.state = "rejected" /\ promise.reason = "Timeout" -> "TimedOut"
      [] OTHER -> "Failed"

Terminal == Collection \in {"Complete", "TimedOut", "Failed"}

\* C18: the collection only moves forward, from Collecting to one of
\* Complete, TimedOut and Failed, where it stays: the promise is settled at
\* most once and buildOutput runs at most once; a demuxer error that
\* arrives while it is collecting makes it Failed; a batch, an error or the
\* timeout that arrives in a terminal state changes neither the outcome
\* nor the samples gathered.
C18_ForwardOnly ==
    [][/\ Collection = "Idle" => Collection' \in {"Idle", "Collecting", "Failed"}
       /\ Terminal =>
             /\ promise' = promise
             /\ builds' = builds
             /\ built' = built
             /\ fileInfo' = fileInfo => trackSamples' = trackSamples
       /\ builds' <= 1
       /\ builds' = 1 <=> Collection' = "Complete"
       /\ (Collection = "Collecting" /\ demux'.errors > demux.errors)
             => Collection' = "Failed"]_vars

\* C18: the timer ended the collection, and an error and a batch of samples
\* arrived after that.
C18_LateCallbacks ==
    /\ Collection = "TimedOut"
    /\ demux.errors = 1
    /\ \E i \in 1..Len(trackSamples) : demux.delivered[i] > Len(trackSamples[i])
\* Every track the demuxer reported has at least its declared number of
\* samples in the accumulator.
AllGathered ==
    /\ fileInfo.ready
    /\ \A t \in 1..Len(fileInfo.tracks) :
          Len(trackSamples[t]) >= fileInfo.tracks[t].nb_samples

\* Some reported track declares a sample, so that a batch can arrive.
SomeDeclared ==
    \E t \in 1..Len(fileInfo.tracks) : fileInfo.tracks[t].nb_samples > 0

\* A batch of samples is delivered in this step.
Batch == fileInfo' = fileInfo /\ demux'.delivered # demux.delivered

\* C19 (as stated): the collection completes only when every reported track
\* has gathered its declared number of samples, on the first batch after
\* which that is so, and a collection that has gathered every declared
\* sample of every track does not end TimedOut.
C19_GatheredMeansComplete ==
    [][/\ Collection' = "Complete" => AllGathered'
       /\ (Collection = "Collecting" /\ Batch /\ AllGathered')
             => Collection' = "Complete"
       /\ AllGathered' => Collection' # "TimedOut"]_vars

\* C19 (amended): as above, but a collection that has gathered everything
\* is sure to be Complete, and neither collecting nor TimedOut, only if
\* some track declares at least one sample: the test runs when a batch
\* arrives and at no other time.
C19_CompletesOnBatch ==
    [][/\ Collection' = "Complete" => AllGathered'
       /\ (Collection = "Collecting" /\ Batch /\ AllGathered')
             => Collection' = "Complete"
       /\ (AllGathered' /\ SomeDeclared')
             => Collection' \notin {"Collecting", "TimedOut"}]_vars

\* C19: two tracks were reported and the collection completed before the
\* timer fired.
C19_CompletedTwoTracks ==
    /\ Collection = "Complete"
    /\ Len(fileInfo.tracks) = 2
    /\ \A t \in 1..2 : fileInfo.tracks[t].nb_samples > 0
    /\ timer = "armed"
\* No strategy occurs twice among those started.
StartedOnce ==
    \A i, j \in 1..Len(started) : started[i] = started[j] => i = j

\* C20 (as stated): within one muxVideoAudio call no strategy is started
\* more than once, and binaryMuxFragmentedMP4 runs at most once.
C20_AssemblerOnce == StartedOnce /\ muxCalls <= 1

\* C20 (amended): within one muxVideoAudio call no strategy is started more
\* than once; binaryMuxFragmentedMP4 runs at most twice, once inside the
\* progressive strategy, which demuxes its output, and once more as the
\* fragmented strategy when the progressive one failed.
C20_StrategiesOnce ==
    /\ StartedOnce
    /\ muxCalls <= 2
    /\ muxCalls = 2 => started[1] = "progressive" /\ started[2] = "fragmented"

\* C20: the call came to its end after all three strategies had run, the
\* assembler twice.
C20_AllStrategiesRan ==
    pc = "done" /\ Len(started) = 3 /\ muxCalls = 2
(***************************************************************************)
(* parseBoxes one iteration at a time.                                     *)
(***************************************************************************)
\* Streams that depart from the nominal one in at most two fields, streams
\* with a box whose size field is 2..7 before a well-formed box, and the
\* empty buffer.
ScanInputs ==
    LET D == 0..Len(Departures)
    IN  {Stream(Depart(Depart(Nominal(16), i), j)) : i \in D, j \in D}
        \cup {Stream(Depart(Nominal(16), i)) \o U32Bytes(k) \o T_free
                \o Zeros(PadLen) \o Mdat(1) : i \in D, k \in 2..7}
        \cup {<<>>}

InitScan ==
    /\ \E b \in ScanInputs :
          scan = [view |-> b, offset |-> 0, boxes |-> <<>>, state |-> "loop"]
    /\ bg = NoWorker
    /\ dl = NoDownload
    /\ patch = NoPatch
    /\ vDesc = Nominal(16)
    /\ aDesc = Nominal(80)
    /\ videoData = Stream(vDesc)
    /\ audioData = Stream(aDesc)
    /\ pc = "parse_boxes"
    /\ muxed = NoResult
    /\ mp4boxLoaded = TRUE
    /\ built = <<>>
    /\ MuxIdle

ScanOnly ==
    UNCHANGED <<bg, dl, patch, vDesc, aDesc, videoData, audioData, pc, muxed,
                mp4boxLoaded, started, outcome, ret, stsd, resolved, promise,
                fileInfo, trackSamples, timer, demux, builds, muxCalls,
                built, pf, videoResult>>

\* A break test that lets every header through.
breaksNever(box) == box.isNull

\* if (!box || box.size < 8) break
breaks(box) == box.isNull \/ box.size < 8

\* One pass through the loop body that pushes a box and moves the offset.
ScanPush ==
    /\ scan.state = "loop"
    /\ scan.offset < Len(scan.view)
    /\ \E box \in {readBoxHeader(scan.view, scan.offset)} :
          /\ ~box.threw
          /\ ~breaks(box)
          /\ scan' = [scan EXCEPT !.boxes = Append(@, box),
                                  !.offset = @ + box.size]
    /\ ScanOnly

\* The loop ends: its condition is false, or the body breaks.
ScanReturn ==
    /\ scan.state = "loop"
    /\ \/ ~(scan.offset < Len(scan.view))
       \/ \E box \in {readBoxHeader(scan.view, scan.offset)} :
             ~box.threw /\ breaks(box)
    /\ scan' = [scan EXCEPT !.state = "returned"]
    /\ ScanOnly

\* getBigUint64 raises a RangeError inside readBoxHeader.
ScanThrow ==
    /\ scan.state = "loop"
    /\ scan.offset < Len(scan.view)
    /\ readBoxHeader(scan.view, scan.offset).threw
    /\ scan' = [scan EXCEPT !.state = "threw"]
    /\ ScanOnly

NextScan == ScanPush \/ ScanReturn \/ ScanThrow
SpecScan == InitScan /\ [][NextScan]_vars /\ WF_vars(NextScan)

\* The boxes pushed so far lie end to end from offset 0, each 8 bytes or
\* more, and the read offset is where the last one ends.
Contiguous ==
    LET b == scan.boxes
    IN  /\ \A k \in 1..Len(b) : b[k].size >= 8
        /\ Len(b) > 0 => b[1].offset = 0
        /\ \A k \in 1..(Len(b) - 1) : b[k + 1].offset = b[k].offset + b[k].size
        /\ scan.offset = IF Len(b) = 0 THEN 0
                         ELSE b[Len(b)].offset + b[Len(b)].size

\* Where a scan that returned has stopped: fewer than 8 bytes remain, or
\* the box there has a computed size below 8.
StoppedAtEnd ==
    \/ Len(scan.view) - scan.offset < 8
    \/ readBoxHeader(scan.view, scan.offset).size < 8

\* C21: parseBoxes comes to an end on every buffer (by returning, or by the
\* RangeError of a 64-bit size cut off by the end of the buffer): each pass
\* through the loop moves the read offset forward, a scan that returned
\* has stopped where fewer than 8 bytes remain or at a box whose computed
\* size is below 8, and the boxes it holds are contiguous from offset 0,
\* each with size >= 8; they are the boxes parseBoxes returns.
C21_ScanTerminates ==
    /\ [](Contiguous
          /\ (scan.state = "returned" =>
                /\ StoppedAtEnd
                /\ parseBoxes(scan.view) = [threw |-> FALSE, boxes |-> scan.boxes])
          /\ (scan.state = "threw" => parseBoxes(scan.view).threw))
    /\ [][scan'.offset > scan.offset \/ scan'.state # "loop"]_vars
    /\ <>(scan.state # "loop")

\* C21: a scan returned several boxes, having stopped at a box whose size
\* field is below 8 with more than 8 bytes left.
C21_StoppedAtSmallBox ==
    /\ scan.state = "returned"
    /\ Len(scan.boxes) > 2
    /\ Len(scan.view) - scan.offset > 8
    /\ getUint32(scan.view, scan.offset) \in 2..7
\* Buffer b with the 32-bit big-endian value v over the bytes at off.
Written(b, off, v) ==
    [k \in 1..Len(b) |->
        IF k \in (off + 1)..(off + 4) THEN U32Bytes(v)[k - off] ELSE b[k]]

\* What C22 says of a trak that updateTrackIdInTrak(trak, 2) has been
\* applied to.
TrakFrame ==
    LET tkhd == OfType(Children(patch.box), T_tkhd)
    IN  IF Len(tkhd) = 0 THEN patch.data = patch.box
        ELSE LET o == tkhd[1].offset
             IN  (tkhd[1].size > 8 /\ patch.box[o + 9] \in {0, 1}) =>
                    patch.data = Written(patch.box,
                                         o + (IF patch.box[o + 9] = 0
                                              THEN 20 ELSE 28), 2)

\* C22: updateTrackIdInTrak(trak, id) has written id as a 32-bit big-endian
\* value at offset 20 from the start of the tkhd child when its version
\* byte is 0 and at offset 28 when it is 1, every other byte of the trak is
\* as before, and a trak without a tkhd child is unchanged.
C22_TrakFrame ==
    (patch.fn = "trak" /\ patch.calls >= 1) => TrakFrame

\* The same for the calls that did not raise.
TrakFrameUnlessRaised ==
    (patch.fn = "trak" /\ patch.calls >= 1 /\ ~patch.threw) => TrakFrame

\* C22: the patcher raised on a trak whose tkhd child has a version byte of
\* 0 or 1, and wrote nothing.
C22_NothingWritten ==
    /\ patch.fn = "trak"
    /\ patch.threw
    /\ patch.data = patch.box
    /\ LET tkhd == OfType(Children(patch.box), T_tkhd)
       IN  /\ Len(tkhd) > 0
           /\ tkhd[1].size > 8
           /\ patch.box[tkhd[1].offset + 9] \in {0, 1}
\* The box headers found from offset by following the size fields, whether
\* or not the bytes of the box are all there.
RECURSIVE HeadersFrom(_, _)
HeadersFrom(data, offset) ==
    IF offset + 8 > Len(data) THEN <<>>
    ELSE LET size == getUint32(data, offset)
         IN  <<[type |-> typeAt(data, offset), offset |-> offset, size |-> size]>>
             \o (IF size < 8 THEN <<>> ELSE HeadersFrom(data, offset + size))

\* Offset in a moof of its tfhd: the first tfhd in its first traf, if the
\* track-ID field of that tfhd is among the bytes (-1 when there is none).
TfhdOffset(moof) ==
    LET trafs == OfType(HeadersFrom(moof, 8), T_traf)
    IN  IF Len(trafs) = 0 THEN -1
        ELSE LET tfhds == OfType(HeadersFrom(moof, trafs[1].offset + 8), T_tfhd)
             IN  IF Len(tfhds) = 0 \/ tfhds[1].offset + 16 > Len(moof) THEN -1
                 ELSE tfhds[1].offset

\* What an audio fragment box of the source has to look like in the output.
Expected(box) ==
    IF typeAt(box, 0) = T_sidx THEN Written(box, 12, 2)
    ELSE IF typeAt(box, 0) = T_moof
    THEN Written(box, TfhdOffset(box) + 12, 2)
    ELSE box

\* part holds, from position at on, the boxes i.. of data as Expected.
RECURSIVE AudioFragmentsPatched(_, _, _, _, _)
AudioFragmentsPatched(data, boxes, i, part, at) ==
    IF i > Len(boxes) THEN at = Len(part)
    ELSE LET b == boxes[i]
         IN  /\ at + b.size <= Len(part)
             /\ SubSeq(part, at + 1, at + b.size) = Expected(BytesOf(data, b))
             /\ (b.type = T_moof => TfhdOffset(BytesOf(data, b)) >= 0)
             /\ AudioFragmentsPatched(data, boxes, i + 1, part, at + b.size)

\* C23: in a fragmented output every audio moof is the source moof with
\* its tfhd track ID set to 2, every audio sidx the source sidx with its
\* reference ID set to 2, and every video styp, sidx, moof and mdat box and
\* every audio styp and mdat box is byte for byte the box of its source
\* stream.
C23_FragmentsPatched ==
    FragSucceeded =>
        LET v == Stream(vDesc)
            a == Stream(aDesc)
            out == muxed.output
            V == ConcatBoxes(v, FragmentBoxes(v), 1)
            start == Len(out) - Len(ConcatBoxes(a, FragmentBoxes(a), 1))
        IN  /\ start >= Len(V)
            /\ SubSeq(out, start - Len(V) + 1, start) = V
            /\ AudioFragmentsPatched(a, FragmentBoxes(a), 1,
                                     SubSeq(out, start + 1, Len(out)), 0)

\* The same for audio streams that are not cut off inside a box.
FragmentsPatchedUntruncated ==
    ~TruncatedAt(Stream(aDesc), 0) => C23_FragmentsPatched

\* C23: a call succeeded on an audio stream that ends inside a moof box.
C23_TruncatedAudioMoof ==
    /\ FragSucceeded
    /\ TruncatedAt(Stream(aDesc), 0)
    /\ LET boxes == FragmentBoxes(Stream(aDesc))
       IN  boxes[Len(boxes)].type = T_moof
\* The merged moov of a fragmented output: the bytes between the video
\* ftyp and the fragment boxes of the two streams.
MergedMoov ==
    LET v == Stream(vDesc)
        a == Stream(aDesc)
        ftyp == OfType(TopLevel(v), T_ftyp)[1]
        rest == Len(ConcatBoxes(v, FragmentBoxes(v), 1))
                + Len(ConcatBoxes(a, FragmentBoxes(a), 1))
    IN  SubSeq(muxed.output, ftyp.size + 1, Len(muxed.output) - rest)

\* createMergedMoov took the branch that extends the mvex of the video moov.
MvexBranch ==
    /\ HasType(Children(MoovOf(Stream(vDesc))), T_mvex)
    /\ HasType(Children(MoovOf(Stream(aDesc))), T_mvex)
    /\ HasType(Children(Descend(MoovOf(Stream(aDesc)), <<T_mvex>>, 1)), T_trex)

\* C24: the size field of the merged moov is the length of the array that
\* createMergedMoov returned, in both branches, and its children tile it;
\* in the mvex branch the size field of the new mvex is the old mvex size
\* plus the length of the audio trex, and the children of the mvex tile it.
C24_MergedSizes ==
    FragSucceeded =>
        LET moov == MergedMoov
            oldMvex == Descend(MoovOf(Stream(vDesc)), <<T_mvex>>, 1)
            trex == Descend(MoovOf(Stream(aDesc)), <<T_mvex, T_trex>>, 1)
            mvexHeads == OfType(HeadersFrom(moov, 8), T_mvex)
        IN  /\ getUint32(moov, 0) = Len(moov)
            /\ typeAt(moov, 0) = T_moov
            /\ Tiled(moov, 8)
            /\ MvexBranch =>
                  /\ Len(mvexHeads) = 1
                  /\ mvexHeads[1].size = Len(oldMvex) + Len(trex)
                  /\ mvexHeads[1].offset + mvexHeads[1].size = Len(moov)
                  /\ Tiled(Descend(moov, <<T_mvex>>, 1), 8)

\* C24: the mvex branch was taken.
C24_MvexExtended == FragSucceeded /\ MvexBranch

\* The branch that appends the trak was taken on a video moov that has an
\* mvex.
AppendedAfterMvex ==
    /\ FragSucceeded
    /\ ~MvexBranch
    /\ HasType(Children(MoovOf(Stream(vDesc))), T_mvex)

\* The natural number nearest to a / b, the upper one of two that are
\* equally near.
Nearest(a, b) ==
    CHOOSE r \in 0..(a + 1) : 2 * a - b < 2 * b * r /\ 2 * b * r <= 2 * a + b

MovieDuration(track) == Nearest(track.duration * 1000, track.timescale)

RECURSIVE DurationSum(_, _)
DurationSum(samples, k) ==
    IF k > Len(samples) THEN 0
    ELSE samples[k].duration + DurationSum(samples, k + 1)

KeptIn(child, mchild) ==
    \/ child = mchild
    \/ /\ MvexBranch
       /\ typeAt(child, 0) = T_mvex
       /\ Len(mchild) >= Len(child)
       /\ SubSeq(mchild, 5, Len(child)) = SubSeq(child, 5, Len(child))

\* The boxes of kids from position i on are kept, in their order, in the
\* boxes of mkids from position j on.
RECURSIVE KeptInOrder(_, _, _, _)
KeptInOrder(kids, i, mkids, j) ==
    IF i > Len(kids) THEN TRUE
    ELSE IF j > Len(mkids) THEN FALSE
    ELSE IF KeptIn(kids[i], mkids[j])
    THEN KeptInOrder(kids, i + 1, mkids, j + 1)
    ELSE KeptInOrder(kids, i, mkids, j + 1)

ChildBytes(box) ==
    LET heads == Children(box)
    IN  [k \in 1..Len(heads) |-> BytesOf(box, heads[k])]

\* C26: the merged moov keeps every child box of the video moov, in the
\* original order, and its length is the length of the video moov plus the
\* length of the audio trak, plus the length of the audio trex in the mvex
\* branch; also when boxes follow the mvex of the video moov.
C26_VideoMoovKept ==
    FragSucceeded =>
        LET vm == MoovOf(Stream(vDesc))
            am == MoovOf(Stream(aDesc))
            trak == Descend(am, <<T_trak>>, 1)
            trex == Descend(am, <<T_mvex, T_trex>>, 1)
            moov == MergedMoov
        IN  /\ KeptInOrder(ChildBytes(vm), 1, ChildBytes(moov), 1)
            /\ Len(moov) = Len(vm) + Len(trak)
                           + (IF MvexBranch THEN Len(trex) ELSE 0)

\* C26: the mvex branch ran on a video moov with a udta after its mvex, and
\* the merged moov has no udta and is shorter than its parts by that udta.
C26_UdtaDropped ==
    /\ FragSucceeded
    /\ MvexBranch
    /\ HasType(Children(MoovOf(Stream(vDesc))), T_udta)
    /\ ~HasType(Children(MergedMoov), T_udta)
    /\ Len(MergedMoov)
         = Len(MoovOf(Stream(vDesc)))
           + Len(Descend(MoovOf(Stream(aDesc)), <<T_trak>>, 1))
           + Len(Descend(MoovOf(Stream(aDesc)), <<T_mvex, T_trex>>, 1))
           - Len(Descend(MoovOf(Stream(vDesc)), <<T_udta>>, 1))

\* Short of the boxes that follow the mvex of the video moov, the merged
\* moov keeps the video moov.
VideoMoovKeptBeforeMvex ==
    (FragSucceeded /\ ~(MvexBranch
                        /\ HasType(Children(MoovOf(Stream(vDesc))), T_udta))) =>
        LET vm == MoovOf(Stream(vDesc))
            am == MoovOf(Stream(aDesc))
        IN  /\ KeptInOrder(ChildBytes(vm), 1, ChildBytes(MergedMoov), 1)
            /\ Len(MergedMoov) = Len(vm) + Len(Descend(am, <<T_trak>>, 1))
                  + (IF MvexBranch
                     THEN Len(Descend(am, <<T_mvex, T_trex>>, 1)) ELSE 0)
RECURSIVE CountSum(_, _)
CountSum(entries, k) ==
    IF k > Len(entries) THEN 0 ELSE entries[k].a + CountSum(entries, k + 1)

\* A run-length table in canonical form for n samples.
Canonical(entries, n) ==
    /\ \A k \in 1..Len(entries) : entries[k].a >= 1
    /\ \A k \in 1..(Len(entries) - 1) : entries[k].b # entries[k + 1].b
    /\ CountSum(entries, 1) = n
    /\ n = 0 => Len(entries) = 0

SttsOf(i) == TableEntries(Descend(StblOf(TraksOf(promise.value)[i]), <<T_stts>>, 1))

\* C27: the stts table of every built track is a canonical run-length
\* encoding: every count is at least 1, consecutive entries differ in
\* their duration, the counts add up to the number of samples, and no
\* samples give no entries; for every sample list, also one that starts
\* with a sample of duration 0.
C27_SttsCanonical ==
    BuildDone =>
        \A i \in 1..Len(built) : Canonical(SttsOf(i), Len(built[i].samples))

\* C27: a track whose first sample has duration 0 was built, and its stts
\* table starts with an entry of count 0 and duration 1.
C27_EmptyFirstRun ==
    BuildDone /\ \E i \in 1..Len(built) :
        /\ Len(built[i].samples) > 0
        /\ built[i].samples[1].duration = 0
        /\ Len(SttsOf(i)) > 0
        /\ SttsOf(i)[1] = [a |-> 0, b |-> 1]

\* The stts table of a track is canonical unless its first sample has
\* duration 0, and then only the first entry is not.
SttsCanonicalButFirstRun ==
    BuildDone =>
        \A i \in 1..Len(built) :
            LET n == Len(built[i].samples)
                e == SttsOf(i)
            IN  IF n > 0 /\ built[i].samples[1].duration = 0
                THEN /\ Len(e) > 0
                     /\ e[1] = [a |-> 0, b |-> 1]
                     /\ Canonical(SubSeq(e, 2, Len(e)), n)
                ELSE Canonical(e, n)
\* The runs of downloadDashVideo that have not reached their end: they are
\* parsing the manifest, fetching segments, muxing, or pausing before the
\* second file of the fallback.
Running ==
    {r \in Runs :
        dl.runs[r].stage \in {"parsing", "video", "audio", "muxing", "fallback"}}

\* C28: at most one downloadDashVideo is in progress at any time, and
\* while one is in progress isDownloading is set, so that every further
\* invocation is refused, also after the cancel button was pressed and
\* after another download has ended.
C28_OneDownload ==
    /\ Cardinality(Running) <= 1
    /\ Running # {} => dl.isDownloading

\* C28: two downloads are in progress at once, the first one cancelled and
\* the second one started after that.
C28_TwoDownloads ==
    /\ Cardinality(Running) = 2
    /\ \E r \in Running : dl.runs[r].cancelled
    /\ \E r \in Running : ~dl.runs[r].cancelled

\* As long as cancel was pressed on no download before its end, one
\* download runs at a time and the flag is set while it runs.
OneDownloadUncancelled ==
    (\A r \in Runs : ~dl.runs[r].cancelled) =>
        /\ Cardinality(Running) <= 1
        /\ Running # {} => dl.isDownloading
(***************************************************************************)
(* The background service worker: ensureOffscreenDocument, the onMessage   *)
(* listener, handleMuxRequest and the onInstalled listener.                *)
(*                                                                         *)
(* bg.document says whether the browser has an offscreen document,         *)
(* bg.calls holds the calls of handleMuxRequest and of the onInstalled     *)
(* listener with the await each one is at, bg.invocations the calls of     *)
(* chrome.offscreen.createDocument, bg.jobs the mux messages sent to the   *)
(* offscreen document (the request id is the position), and bg.sent the    *)
(* messages sent to tabs, where "Preparing" is the muxProgress message that *)
(* handleMuxRequest sends itself.  Tab 0 stands for a sender without a tab. *)
(***************************************************************************)
MaxCalls == 2
MaxTabs == 2

Tabs == 0..MaxTabs
Calls == 1..Len(bg.calls)
Jobs == 1..Len(bg.jobs)

WorkerOnly ==
    UNCHANGED <<scan, dl, patch, vDesc, aDesc, videoData, audioData, pc, muxed,
                mp4boxLoaded, started, outcome, ret, stsd, resolved, promise,
                fileInfo, trackSamples, timer, demux, builds, muxCalls,
                built, pf, videoResult>>

\* The worker script has just been loaded; a document made in an earlier
\* life of the worker may still be there.
InitWorker ==
    /\ \E d \in BOOLEAN : bg = [NoWorker EXCEPT !.document = d]
    /\ scan = NoScan
    /\ dl = NoDownload
    /\ patch = NoPatch
    /\ vDesc = Nominal(16)
    /\ aDesc = Nominal(80)
    /\ videoData = Stream(vDesc)
    /\ audioData = Stream(aDesc)
    /\ pc = "worker"
    /\ muxed = NoResult
    /\ mp4boxLoaded = TRUE
    /\ built = <<>>
    /\ MuxIdle

\* ensureOffscreenDocument up to its first await, entered by a new call:
\* with the flag set it returns, otherwise it asks for the contexts.
entered(kind, tabId) ==
    [kind |-> kind, tabId |-> tabId, existing |-> FALSE,
     at |-> IF bg.offscreenDocumentCreated THEN "returned" ELSE "getContexts"]

\* The listener receives a muxRequest from tab tabId and calls
\* handleMuxRequest(message, sender.tab?.id).
OnMuxRequest(tabId) ==
    /\ Len(bg.calls) < MaxCalls
    /\ bg' = [bg EXCEPT !.calls = Append(@, entered("mux", tabId))]
    /\ WorkerOnly

\* chrome.runtime.onInstalled fires.
OnInstalled ==
    /\ Len(bg.calls) < MaxCalls
    /\ \A c \in Calls : bg.calls[c].kind # "install"
    /\ bg' = [bg EXCEPT !.calls = Append(@, entered("install", 0))]
    /\ WorkerOnly

\* The browser answers chrome.runtime.getContexts of call c.
ContextsAnswered(c) ==
    /\ bg.calls[c].at = "getContexts"
    /\ bg' = [bg EXCEPT !.calls[c].at = "answered",
                        !.calls[c].existing = bg.document]
    /\ WorkerOnly

\* chrome.offscreen.createDocument invoked by call c: the browser makes
\* the document, or refuses when there is one.
createDocument(b, c) ==
    [b EXCEPT !.invocations = Append(@, [existed |-> b.document]),
              !.document = TRUE,
              !.calls[c].at = IF b.document THEN "refused" ELSE "createDocument"]

\* Call c goes on after await getContexts: a document exists, so the flag
\* is set and ensureOffscreenDocument returns; or createDocument is invoked.
ContextsResolved(c) ==
    /\ bg.calls[c].at = "answered"
    /\ bg' = IF bg.calls[c].existing
             THEN [bg EXCEPT !.offscreenDocumentCreated = TRUE,
                             !.calls[c].at = "returned"]
             ELSE createDocument(bg, c)
    /\ WorkerOnly

\* await createDocument of call c is fulfilled.
DocumentCreated(c) ==
    /\ bg.calls[c].at = "createDocument"
    /\ bg' = [bg EXCEPT !.offscreenDocumentCreated = TRUE,
                        !.calls[c].at = "returned"]
    /\ WorkerOnly

\* await createDocument of call c is rejected: ensureOffscreenDocument
\* throws again, and the catch of handleMuxRequest tells the tab.
CreateRejected(c) ==
    /\ bg.calls[c].at = "refused"
    /\ bg' = [bg EXCEPT
                !.calls[c].at = "threw",
                !.sent = IF bg.calls[c].kind = "mux" /\ bg.calls[c].tabId # 0
                         THEN @ \cup {[tabId |-> bg.calls[c].tabId,
                                       action |-> "muxError", requestId |-> 0]}
                         ELSE @]
    /\ WorkerOnly

\* handleMuxRequest after await ensureOffscreenDocument(): a fresh request
\* id, the entry in pendingRequests, the first progress message to the tab
\* and the mux message to the offscreen document.
Dispatch(c) ==
    /\ bg.calls[c].kind = "mux"
    /\ bg.calls[c].at = "returned"
    /\ LET requestId == Len(bg.jobs) + 1
           tabId == bg.calls[c].tabId
       IN  bg' = [bg EXCEPT
                    !.calls[c].at = "dispatched",
                    !.pendingRequests =
                        @ \cup {[requestId |-> requestId, tabId |-> tabId]},
                    !.sent = IF tabId # 0
                             THEN @ \cup {[tabId |-> tabId,
                                           action |-> "Preparing",
                                           requestId |-> requestId]}
                             ELSE @,
                    !.jobs = Append(@, [tabId |-> tabId, ended |-> FALSE])]
    /\ WorkerOnly

\* One branch of the listener: request = pendingRequests.get(requestId);
\* if (request && request.tabId) the message goes to that tab and, for
\* muxComplete and muxError, the entry is deleted.
forwarded(b, action, requestId, delete) ==
    LET request == {e \in b.pendingRequests : e.requestId = requestId}
        to == {e \in request : e.tabId # 0}
    IN  [b EXCEPT
           !.sent = @ \cup {[tabId |-> e.tabId, action |-> action,
                             requestId |-> requestId] : e \in to},
           !.pendingRequests = IF delete THEN @ \ to ELSE @]

\* The listener receives a muxProgress of handleMux for request j.
OnMuxProgress(j) ==
    /\ ~bg.jobs[j].ended
    /\ bg' = forwarded(bg, "muxProgress", j, FALSE)
    /\ WorkerOnly

\* The listener receives the muxComplete of handleMux for request j.
OnMuxComplete(j) ==
    /\ ~bg.jobs[j].ended
    /\ bg' = [forwarded(bg, "muxComplete", j, TRUE) EXCEPT !.jobs[j].ended = TRUE]
    /\ WorkerOnly

\* The listener receives the muxError of handleMux for request j.
OnMuxError(j) ==
    /\ ~bg.jobs[j].ended
    /\ bg' = [forwarded(bg, "muxError", j, TRUE) EXCEPT !.jobs[j].ended = TRUE]
    /\ WorkerOnly

NextWorker ==
    \/ \E tabId \in Tabs : OnMuxRequest(tabId)
    \/ OnInstalled
    \/ \E c \in Calls : ContextsAnswered(c)
    \/ \E c \in Calls : ContextsResolved(c)
    \/ \E c \in Calls : DocumentCreated(c)
    \/ \E c \in Calls : CreateRejected(c)
    \/ \E c \in Calls : Dispatch(c)
    \/ \E j \in Jobs : OnMuxProgress(j)
    \/ \E j \in Jobs : OnMuxComplete(j)
    \/ \E j \in Jobs : OnMuxError(j)

SpecWorker == InitWorker /\ [][NextWorker]_vars
\* The tab that issued request j.
Issuer(j) == bg.jobs[j].tabId

\* C29: for every interleaving of requests from several tabs, a message
\* for a request is forwarded only to the tab that issued the request, and
\* once the muxComplete or the muxError of a request has been received,
\* pendingRequests has no entry for it, also when the request came without
\* a tab id.
C29_RoutedAndRemoved ==
    /\ \A m \in bg.sent : m.requestId # 0 => m.tabId = Issuer(m.requestId)
    /\ \A j \in Jobs :
          bg.jobs[j].ended => \A e \in bg.pendingRequests : e.requestId # j

\* C29: the muxComplete or the muxError of a request without a tab id was
\* received and the entry of the request is still in pendingRequests, while
\* a request of a tab ended and left none.
C29_EntryLeftBehind ==
    /\ \E j \in Jobs :
          /\ bg.jobs[j].ended
          /\ Issuer(j) = 0
          /\ [requestId |-> j, tabId |-> 0] \in bg.pendingRequests
    /\ \E j \in Jobs :
          /\ bg.jobs[j].ended
          /\ Issuer(j) # 0
          /\ \A e \in bg.pendingRequests : e.requestId # j

\* Messages go to the issuing tab only, every request of a tab loses its
\* entry when it ends, and its tab is sent the muxComplete or muxError.
RoutedAndRemovedForTabs ==
    /\ \A m \in bg.sent : m.requestId # 0 => m.tabId = Issuer(m.requestId)
    /\ \A j \in Jobs :
          (bg.jobs[j].ended /\ Issuer(j) # 0) =>
              /\ \A e \in bg.pendingRequests : e.requestId # j
              /\ \E m \in bg.sent :
                    /\ m.requestId = j
                    /\ m.tabId = Issuer(j)
                    /\ m.action \in {"muxComplete", "muxError"}

\* The calls of ensureOffscreenDocument that have returned.
EnsureReturned == {c \in Calls : bg.calls[c].at \in {"returned", "dispatched"}}

\* C30: for every interleaving of concurrent calls of
\* ensureOffscreenDocument, chrome.offscreen.createDocument is invoked at
\* most once, never while a document exists, no call ends by throwing, and
\* a call that has returned finds offscreenDocumentCreated true.
C30_CreatedOnce ==
    /\ Len(bg.invocations) <= 1
    /\ \A k \in 1..Len(bg.invocations) : ~bg.invocations[k].existed
    /\ \A c \in Calls : bg.calls[c].at # "threw"
    /\ EnsureReturned # {} => bg.offscreenDocumentCreated

\* C30: two overlapping calls both invoked createDocument, the second one
\* while the document of the first existed, and that call threw.
C30_CreatedTwice ==
    /\ Len(bg.invocations) = 2
    /\ ~bg.invocations[1].existed
    /\ bg.invocations[2].existed
    /\ \E c \in Calls : bg.calls[c].at = "threw"
    /\ \E c \in Calls : bg.calls[c].at \in {"createDocument", "returned", "dispatched"}

\* A call with no other call beside it invokes createDocument at most
\* once, and only when there is no document, and returns with the flag set.
CreatedOnceAlone ==
    Len(bg.calls) <= 1 =>
        /\ Len(bg.invocations) <= 1
        /\ \A k \in 1..Len(bg.invocations) : ~bg.invocations[k].existed
        /\ \A c \in Calls : bg.calls[c].at # "threw"
        /\ EnsureReturned # {} => bg.offscreenDocumentCreated
====
